---- MODULE Spec2Model ----
(***************************************************************************)
(* Model of the project index of logos-lang (crate logos-index):           *)
(* SymbolTable, CallGraph, TypeHierarchy, DependencyGraph, ProjectIndex    *)
(* (symbol_table.rs) and the ProjectIndexer that feeds them (indexer.rs).  *)
(*                                                                         *)
(* A DashMap is a function with a finite domain, a Vec is a sequence, a    *)
(* HashSet is a set, an Option is a sequence of length 0 or 1.  Strings    *)
(* are TLA+ strings, so that the uri/path conversions are computed.        *)
(***************************************************************************)
EXTENDS Integers, Sequences, FiniteSets, TLC

VARIABLES
    index,    \* ProjectIndexer.index : ProjectIndex (symbols, call_graph,
              \* type_hierarchy, dependencies)
    COUNTER,  \* the static AtomicU64 of SymbolId::new
    disk,     \* the file system: path -> source of the file
    last,     \* the last call made on the index and what it returned
    added,    \* history: every symbol ever passed to add_symbol
    thread,   \* the threads inside remove_file or reindex_file: where each is,
              \* and its local variables
    observed, \* a reader thread's last query and what it returned
    state     \* the daemon's State: documents, symbol_index, todo_index,
              \* project_indexer, mode, initialized, root_path

vars == <<index, COUNTER, disk, last, added, thread, observed, state>>

-----------------------------------------------------------------------------
(* Bounds *)

\* Ids are issued to add_symbol's callers while COUNTER <= MaxId.
MaxId == 3

\* The indexer starts an analysis while COUNTER <= MaxCounter.
MaxCounter == 4

-----------------------------------------------------------------------------
(* Maps, options, sequences *)

EmptyMap == [k \in {} |-> 0]

Put(m, k, v) == [x \in (DOMAIN m) \cup {k} |-> IF x = k THEN v ELSE m[x]]

Del(m, k) == [x \in (DOMAIN m) \ {k} |-> m[x]]

\* entry(k).or_default() of a DashMap of Vec
VecOrDefault(m, k) == IF k \in DOMAIN m THEN m[k] ELSE <<>>

\* entry(k).or_default() of a DashMap of HashSet
SetOrDefault(m, k) == IF k \in DOMAIN m THEN m[k] ELSE {}

Range(s) == {s[i] : i \in DOMAIN s}

\* Vec::retain
Retain(s, Keep(_)) == SelectSeq(s, Keep)

None == <<>>

Some(x) == <<x>>

-----------------------------------------------------------------------------
(* Positions, locations, symbols *)

Position(l, c) == [line |-> l, column |-> c]

\* Ord for Position: the lines are compared, and the columns when they are equal.
Position_cmp(a, b) ==
    IF a.line < b.line THEN "Less"
    ELSE IF a.line > b.line THEN "Greater"
    ELSE IF a.column < b.column THEN "Less"
    ELSE IF a.column > b.column THEN "Greater"
    ELSE "Equal"

\* a <= b and a < b, as PartialOrd derives them from cmp
Position_le(a, b) == Position_cmp(a, b) \in {"Less", "Equal"}

Position_lt(a, b) == Position_cmp(a, b) = "Less"

TextRange(l1, c1, l2, c2) == [start |-> Position(l1, c1), end |-> Position(l2, c2)]

SymbolLocation(u, r, sel) == [uri |-> u, range |-> r, selection_range |-> sel]

SmartSymbol(i, n, q, loc, exp) ==
    [id |-> i, name |-> n, qualified_name |-> q, location |-> loc, exported |-> exp]

\* A SymbolId::new that reads the counter and does not advance it.
SymbolId_new_without_increment(counter) == [id |-> counter, counter |-> counter]

\* SymbolId::new(): fetch_add on the static counter; the id is the old value.
SymbolId_new(counter) == [id |-> counter, counter |-> counter + 1]

-----------------------------------------------------------------------------
(* SymbolTable *)

SymbolTable_new ==
    [symbols |-> EmptyMap, file_symbols |-> EmptyMap, name_index |-> EmptyMap,
     qualified_name_index |-> EmptyMap, references |-> EmptyMap]

\* An add_symbol that puts the id at the front of the file's list.
SymbolTable_add_symbol_at_front(t, symbol) ==
    LET id == symbol.id
        uri == symbol.location.uri
    IN [t EXCEPT
          !.symbols = Put(@, id, symbol),
          !.file_symbols = Put(@, uri, <<id>> \o VecOrDefault(@, uri)),
          !.name_index = Put(@, symbol.name, Append(VecOrDefault(@, symbol.name), id)),
          !.qualified_name_index = Put(@, symbol.qualified_name, id)]

SymbolTable_add_symbol(t, symbol) ==
    LET id == symbol.id
        name == symbol.name
        qualified_name == symbol.qualified_name
        uri == symbol.location.uri
    IN [t EXCEPT
          !.symbols = Put(@, id, symbol),
          !.file_symbols = Put(@, uri, Append(VecOrDefault(@, uri), id)),
          !.name_index = Put(@, name, Append(VecOrDefault(@, name), id)),
          !.qualified_name_index = Put(@, qualified_name, id)]

SymbolTable_get(t, id) == IF id \in DOMAIN t.symbols THEN Some(t.symbols[id]) ELSE None

\* ids.iter().filter_map(|id| self.symbols.get(id))
LookupAll(t, ids) ==
    LET present == SelectSeq(ids, LAMBDA id : id \in DOMAIN t.symbols)
    IN [i \in DOMAIN present |-> t.symbols[present[i]]]

SymbolTable_find_by_name(t, name) ==
    IF name \in DOMAIN t.name_index THEN LookupAll(t, t.name_index[name]) ELSE <<>>

SymbolTable_find_by_qualified_name(t, qualified_name) ==
    IF qualified_name \in DOMAIN t.qualified_name_index
    THEN SymbolTable_get(t, t.qualified_name_index[qualified_name])
    ELSE None

SymbolTable_get_file_symbols(t, uri) ==
    IF uri \in DOMAIN t.file_symbols THEN LookupAll(t, t.file_symbols[uri]) ELSE <<>>

\* A turn of the loop that leaves the id in the by-name index.
RemoveSymbolId_keeps_name(t, id) ==
    IF id \in DOMAIN t.symbols
    THEN [t EXCEPT
            !.symbols = Del(@, id),
            !.qualified_name_index = Del(@, t.symbols[id].qualified_name),
            !.references = Del(@, id)]
    ELSE t

\* One turn of the loop `for id in ids` of remove_file.
RemoveSymbolId(t, id) ==
    IF id \in DOMAIN t.symbols
    THEN LET symbol == t.symbols[id]
         IN [t EXCEPT
               !.symbols = Del(@, id),
               !.name_index =
                   IF symbol.name \in DOMAIN @
                   THEN [@ EXCEPT ![symbol.name] = Retain(@, LAMBDA i : i # id)]
                   ELSE @,
               !.qualified_name_index = Del(@, symbol.qualified_name),
               !.references = Del(@, id)]
    ELSE t

RECURSIVE RemoveSymbolIds(_, _)
RemoveSymbolIds(t, ids) ==
    IF ids = <<>> THEN t ELSE RemoveSymbolIds(RemoveSymbolId(t, Head(ids)), Tail(ids))

\* A remove_file that forgets to drop the symbols from the primary map.
SymbolTable_remove_file_keeps_primary(t, uri) ==
    [t EXCEPT !.file_symbols = Del(@, uri)]

SymbolTable_remove_file(t, uri) ==
    IF uri \in DOMAIN t.file_symbols
    THEN RemoveSymbolIds([t EXCEPT !.file_symbols = Del(@, uri)], t.file_symbols[uri])
    ELSE t

SymbolTable_add_reference(t, reference) ==
    [t EXCEPT !.references =
        Put(@, reference.symbol_id, Append(VecOrDefault(@, reference.symbol_id), reference))]

SymbolTable_get_references(t, id) == VecOrDefault(t.references, id)

-----------------------------------------------------------------------------
(* CallGraph *)

CallSite(caller, callee, loc, call_type) ==
    [caller |-> caller, callee |-> callee, location |-> loc, call_type |-> call_type]

\* An equality on every field of a call site.
CallSite_eq_all_fields(a, b) == a = b

\* impl PartialEq for CallSite (the Hash impl feeds the same four components)
CallSite_eq(a, b) ==
    /\ a.caller = b.caller
    /\ a.callee = b.callee
    /\ a.location.uri = b.location.uri
    /\ a.location.range.start = b.location.range.start

\* HashSet::insert: an element equal to a present one is not inserted.
HashSet_insert(set, x) == IF \E e \in set : CallSite_eq(e, x) THEN set ELSE set \cup {x}

CallGraph_new == [callers |-> EmptyMap, callees |-> EmptyMap]

CallGraph_add_call(g, call) ==
    [g EXCEPT
       !.callers = Put(@, call.caller, HashSet_insert(SetOrDefault(@, call.caller), call)),
       !.callees = Put(@, call.callee, HashSet_insert(SetOrDefault(@, call.callee), call))]

CallGraph_get_callees(g, caller) == SetOrDefault(g.callers, caller)

CallGraph_get_callers(g, callee) == SetOrDefault(g.callees, callee)

\* A remove_file that drops the whole entry of a symbol with a call in the file.
CallGraph_remove_file_drops_entries(g, file_uri) ==
    LET Kept(m) == {k \in DOMAIN m : \A call \in m[k] : call.location.uri # file_uri}
    IN [callers |-> [k \in Kept(g.callers) |-> g.callers[k]],
        callees |-> [k \in Kept(g.callees) |-> g.callees[k]]]

\* A remove_file that filters the incoming map only.
CallGraph_remove_file_callees_only(g, file_uri) ==
    [g EXCEPT
       !.callees = [k \in DOMAIN @ |-> {call \in @[k] : call.location.uri # file_uri}]]

\* A remove_file that filters the outgoing map only.
CallGraph_remove_file_callers_only(g, file_uri) ==
    [g EXCEPT
       !.callers = [k \in DOMAIN @ |-> {call \in @[k] : call.location.uri # file_uri}]]

CallGraph_remove_file(g, file_uri) ==
    [g EXCEPT
       !.callers = [k \in DOMAIN @ |-> {call \in @[k] : call.location.uri # file_uri}],
       !.callees = [k \in DOMAIN @ |-> {call \in @[k] : call.location.uri # file_uri}]]

CallGraph_len(g) ==
    LET RECURSIVE Sum(_)
        Sum(ks) == IF ks = {} THEN 0
                   ELSE LET k == CHOOSE x \in ks : TRUE
                        IN Cardinality(g.callers[k]) + Sum(ks \ {k})
    IN Sum(DOMAIN g.callers)

-----------------------------------------------------------------------------
(* TypeHierarchy *)

TypeHierarchy_new ==
    [supertypes |-> EmptyMap, subtypes |-> EmptyMap,
     implements |-> EmptyMap, implementors |-> EmptyMap]

TypeHierarchy_add_extends(h, subtype, supertype) ==
    [h EXCEPT
       !.supertypes = Put(@, subtype, Append(VecOrDefault(@, subtype), supertype)),
       !.subtypes = Put(@, supertype, Append(VecOrDefault(@, supertype), subtype))]

TypeHierarchy_add_implements(h, implementor, interface) ==
    [h EXCEPT
       !.implements = Put(@, implementor, Append(VecOrDefault(@, implementor), interface)),
       !.implementors = Put(@, interface, Append(VecOrDefault(@, interface), implementor))]

TypeHierarchy_get_supertypes(h, type_id) == VecOrDefault(h.supertypes, type_id)

TypeHierarchy_get_subtypes(h, type_id) == VecOrDefault(h.subtypes, type_id)

TypeHierarchy_get_interfaces(h, type_id) == VecOrDefault(h.implements, type_id)

TypeHierarchy_get_implementors(h, interface_id) == VecOrDefault(h.implementors, interface_id)

-----------------------------------------------------------------------------
(* DependencyGraph *)

DependencyGraph_new == [imports |-> EmptyMap, imported_by |-> EmptyMap, exports |-> EmptyMap]

DependencyGraph_add_import(d, from, to) ==
    [d EXCEPT
       !.imports = Put(@, from, SetOrDefault(@, from) \cup {to}),
       !.imported_by = Put(@, to, SetOrDefault(@, to) \cup {from})]

DependencyGraph_set_exports(d, file, ids) == [d EXCEPT !.exports = Put(@, file, ids)]

DependencyGraph_get_imports(d, file) == SetOrDefault(d.imports, file)

DependencyGraph_get_importers(d, file) == SetOrDefault(d.imported_by, file)

DependencyGraph_get_exports(d, file) == VecOrDefault(d.exports, file)

\* "Remove imports from this file": the forward entry and its reverse records.
RemoveForward(d, file) ==
    IF file \in DOMAIN d.imports
    THEN LET imported == d.imports[file]
         IN [d EXCEPT
               !.imports = Del(@, file),
               !.imported_by =
                   [k \in DOMAIN @ |-> IF k \in imported THEN @[k] \ {file} ELSE @[k]]]
    ELSE d

\* "Remove reverse imports": the reverse entry and its forward records.
RemoveReverse(d, file) ==
    IF file \in DOMAIN d.imported_by
    THEN LET importers == d.imported_by[file]
         IN [d EXCEPT
               !.imported_by = Del(@, file),
               !.imports =
                   [k \in DOMAIN @ |-> IF k \in importers THEN @[k] \ {file} ELSE @[k]]]
    ELSE d

\* A remove_file that drops the file's own entries and leaves the other side alone.
DependencyGraph_remove_file_own_entries(d, file) ==
    [d EXCEPT !.imports = Del(@, file), !.imported_by = Del(@, file),
              !.exports = Del(@, file)]

DependencyGraph_remove_file(d, file) ==
    LET d1 == RemoveForward(d, file)
        d2 == RemoveReverse(d1, file)
    IN [d2 EXCEPT !.exports = Del(@, file)]

DependencyGraph_file_count(d) == Cardinality(DOMAIN d.exports)

-----------------------------------------------------------------------------
(* ProjectIndex *)

ProjectIndex_new ==
    [symbols |-> SymbolTable_new, call_graph |-> CallGraph_new,
     type_hierarchy |-> TypeHierarchy_new, dependencies |-> DependencyGraph_new]

\* PathBuf::from(&str): the path whose text is the string, unchanged.
PathBuf_from(s) == s

\* A remove_file that leaves the call graph alone.
ProjectIndex_remove_file_skips_call_graph(idx, uri) ==
    [idx EXCEPT
       !.symbols = SymbolTable_remove_file(@, uri),
       !.dependencies = DependencyGraph_remove_file(@, PathBuf_from(uri))]

ProjectIndex_remove_file(idx, uri) ==
    [idx EXCEPT
       !.symbols = SymbolTable_remove_file(@, uri),
       !.call_graph = CallGraph_remove_file(@, uri),
       !.dependencies = DependencyGraph_remove_file(@, PathBuf_from(uri))]

-----------------------------------------------------------------------------
(* Paths and URIs *)

Paths == {"/a.ts", "/b.ts"}

\* fn path_to_uri: format!("file://{}", path)
path_to_uri(path) == "file://" \o path

starts_with(s, prefix) == Len(s) >= Len(prefix) /\ SubSeq(s, 1, Len(prefix)) = prefix

\* A uri_to_path that strips seven characters whatever the scheme.
uri_to_path_any_scheme(uri) == Some(SubSeq(uri, 8, Len(uri)))

\* fn uri_to_path: the text after the seven characters of "file://"
uri_to_path(uri) ==
    IF starts_with(uri, "file://") THEN Some(SubSeq(uri, 8, Len(uri))) ELSE None

Uris == {path_to_uri(p) : p \in Paths}

Names == {"A", "B"}

\* The range of the symbols and references built outside an analysis.
UnitRange == TextRange(0, 0, 1, 0)

\* A call on the index: its name, the uri or path it was given, what it returned
\* (an Ok value as Some, an Err or unit as None), the index it started from,
\* the call made before it, and the value it was given when that is more than
\* a uri or a path.
NoCall ==
    [op |-> "new", uri |-> "", result |-> None, before |-> ProjectIndex_new,
     prev |-> [op |-> "new", uri |-> "", ok |-> FALSE], arg |-> None]

Call(op, uri, result, before) ==
    [op |-> op, uri |-> uri, result |-> result, before |-> before,
     prev |-> [op |-> last.op, uri |-> last.uri, ok |-> last.result # None],
     arg |-> None]

\* SymbolIndex::new: no document, nothing in the inverted index
SymbolIndex_new == [by_document |-> EmptyMap, inverted |-> EmptyMap]

\* State::new
State_new ==
    [documents |-> EmptyMap, symbol_index |-> SymbolIndex_new, todo_index |-> EmptyMap,
     project_indexer |-> None, mode |-> "Basic", initialized |-> FALSE,
     root_path |-> None]

Writers == {"w1", "w2"}

\* A thread that is in no call: no operation, nothing in its locals.
Idle ==
    [pc |-> "idle", op |-> "none", ids |-> <<>>, symbol |-> None, todo |-> <<>>,
     result |-> None]

InitThreads ==
    /\ thread = [t \in Writers |-> Idle]
    /\ observed = [query |-> [fn |-> "none", arg |-> ""], result |-> <<>>]
    /\ state = State_new

InitCommon ==
    /\ InitThreads
    /\ index = ProjectIndex_new
    /\ COUNTER = 1
    /\ disk = EmptyMap
    /\ last = NoCall
    /\ added = {}

-----------------------------------------------------------------------------
(* std::path on the text of a path *)

CharAt(s, i) == SubSeq(s, i, i)

RECURSIVE LastIndexOf(_, _, _)
\* The last position <= i of the character ch in s, 0 when there is none.
LastIndexOf(s, ch, i) ==
    IF i = 0 THEN 0 ELSE IF CharAt(s, i) = ch THEN i ELSE LastIndexOf(s, ch, i - 1)

Path_file_name(path) == SubSeq(path, LastIndexOf(path, "/", Len(path)) + 1, Len(path))

\* Path::extension: the text after the last dot of the file name; none when the
\* name has no dot or only a leading one.
Path_extension(path) ==
    LET name == Path_file_name(path)
        dot == LastIndexOf(name, ".", Len(name))
    IN IF dot <= 1 THEN None ELSE Some(SubSeq(name, dot + 1, Len(name)))

\* Path::parent of an absolute path
Path_parent(path) ==
    LET slash == LastIndexOf(path, "/", Len(path))
    IN IF slash = 0 \/ path = "/" THEN None
       ELSE IF slash = 1 THEN Some("/")
       ELSE Some(SubSeq(path, 1, slash - 1))

\* Path::join
Path_join(base, rel) ==
    IF starts_with(rel, "/") THEN rel
    ELSE IF CharAt(base, Len(base)) = "/" THEN base \o rel
    ELSE base \o "/" \o rel

\* Path::with_extension
Path_with_extension(path, ext) ==
    LET name == Path_file_name(path)
        dot == LastIndexOf(name, ".", Len(name))
        stem == IF dot <= 1 THEN path ELSE SubSeq(path, 1, Len(path) - (Len(name) - dot + 1))
    IN stem \o "." \o ext

RECURSIVE Path_components(_)
\* Paths are equal when their components are: a "." between separators is none.
Path_components(path) ==
    IF Len(path) < 3 THEN path
    ELSE IF SubSeq(path, 1, 3) = "/./" THEN Path_components(SubSeq(path, 3, Len(path)))
    ELSE CharAt(path, 1) \o Path_components(SubSeq(path, 2, Len(path)))

\* The file system maps the path of a regular file to its content.  A file or a
\* directory the process may not read is mapped to one of the two values below;
\* every other directory is there through the files under it.
LockedFile == [locked |-> "file"]

LockedDir == [locked |-> "dir"]

\* Path::is_file
Path_is_file(files, path) ==
    IF path \in DOMAIN files THEN files[path] # LockedDir ELSE FALSE

\* Path::is_dir
Path_is_dir(files, path) ==
    \/ IF path \in DOMAIN files THEN files[path] = LockedDir ELSE FALSE
    \/ \E q \in DOMAIN files : starts_with(q, path \o "/")

\* Path::exists on the modelled file system
Path_exists(files, path) ==
    LET p == Path_components(path)
    IN p \in DOMAIN files \/ Path_is_dir(files, p)

\* fs::read_to_string: the content (Ok as Some), or an Err (None)
read_to_string(files, path) ==
    IF Path_is_file(files, path)
    THEN IF files[path] = LockedFile THEN None ELSE Some(files[path])
    ELSE None

RECURSIVE FirstIndexOf(_, _, _)
\* The first position >= i of the character ch in s, 0 when there is none.
FirstIndexOf(s, ch, i) ==
    IF i > Len(s) THEN 0 ELSE IF CharAt(s, i) = ch THEN i ELSE FirstIndexOf(s, ch, i + 1)

\* The names of the entries of a directory: the next component of every path
\* below it.
EntryNames(files, dir) ==
    {LET rest == SubSeq(q, Len(dir) + 2, Len(q))
         slash == FirstIndexOf(rest, "/", 1)
     IN IF slash = 0 THEN rest ELSE SubSeq(rest, 1, slash - 1) :
        q \in {f \in DOMAIN files : starts_with(f, dir \o "/")}}

\* fs::read_dir(dir), flattened: the paths of the entries (Ok as Some), or an
\* Err (None) when dir is not a directory or may not be read.  The order of the
\* entries is the platform's: they come as their names come in `order`.
read_dir(files, dir, order) ==
    IF ~Path_is_dir(files, dir) THEN None
    ELSE IF dir \in DOMAIN files THEN None
    ELSE LET names == SelectSeq(order, LAMBDA n : n \in EntryNames(files, dir))
         IN Some([i \in DOMAIN names |-> Path_join(dir, names[i])])

-----------------------------------------------------------------------------
(* Sources and language adapters *)

Decl(name, qualified_name, range, selection_range, exported) ==
    [name |-> name, qualified_name |-> qualified_name, range |-> range,
     selection_range |-> selection_range, exported |-> exported]

CallInfo(callee_name, location, is_constructor) ==
    [callee_name |-> callee_name, location |-> location, is_constructor |-> is_constructor]

TypeRelation(child_name, parent_name, is_implements) ==
    [child_name |-> child_name, parent_name |-> parent_name, is_implements |-> is_implements]

\* A source text, given by what the adapter's tree walk finds in it.
\* class A (exported), class B extends A with a call in its body, a call outside
\* every declaration, and an import of ./b
SrcAB ==
    [decls |-> <<Decl("A", "A", TextRange(0, 0, 2, 1), TextRange(0, 6, 0, 7), TRUE),
                 Decl("B", "B", TextRange(3, 0, 5, 1), TextRange(3, 6, 3, 7), FALSE)>>,
     calls |-> <<CallInfo("f", TextRange(4, 4, 4, 7), FALSE),
                 CallInfo("g", TextRange(7, 0, 7, 3), FALSE)>>,
     type_relations |-> <<TypeRelation("B", "A", FALSE)>>,
     imports |-> <<"./b">>]

\* class A (exported, with a constructor call in its body), class C implements A
\* (exported), no import
SrcAC ==
    [decls |-> <<Decl("A", "A", TextRange(0, 0, 2, 1), TextRange(0, 6, 0, 7), TRUE),
                 Decl("C", "C", TextRange(3, 0, 5, 1), TextRange(3, 6, 3, 7), TRUE)>>,
     calls |-> <<CallInfo("A", TextRange(1, 4, 1, 11), TRUE)>>,
     type_relations |-> <<TypeRelation("C", "A", TRUE)>>,
     imports |-> <<>>]

Sources == {SrcAB, SrcAC}

\* The extensions of the adapter that ProjectIndexer::new registers.
file_extensions == <<"ts", "tsx">>

\* LanguageAdapter::can_handle
can_handle(path) ==
    LET ext == Path_extension(path)
    IN ext # None /\ ext[1] \in Range(file_extensions)

RECURSIVE BuildSymbols(_, _, _)
\* The symbols of an analysis: SymbolBuilder::new draws one id per declaration.
BuildSymbols(uri, decls, counter) ==
    IF decls = <<>> THEN [symbols |-> <<>>, counter |-> counter]
    ELSE LET d == Head(decls)
             new == SymbolId_new(counter)
             symbol == SmartSymbol(new.id, d.name, d.qualified_name,
                                   SymbolLocation(uri, d.range, d.selection_range),
                                   d.exported)
             rest == BuildSymbols(uri, Tail(decls), new.counter)
         IN [symbols |-> <<symbol>> \o rest.symbols, counter |-> rest.counter]

\* LanguageAdapter::analyze
analyze(uri, source, counter) ==
    LET built == BuildSymbols(uri, source.decls, counter)
        exported == SelectSeq(source.decls, LAMBDA d : d.exported)
    IN [result |->
           [symbols |-> built.symbols,
            imports |-> [i \in DOMAIN source.imports |-> [module_path |-> source.imports[i]]],
            exports |-> [i \in DOMAIN exported |-> [name |-> exported[i].name]],
            calls |-> source.calls,
            type_relations |-> source.type_relations,
            references |-> <<>>],
        counter |-> built.counter]

RECURSIVE TryExtensions(_, _, _)
TryExtensions(files, resolved, exts) ==
    IF exts = <<>> THEN None
    ELSE LET with_ext == Path_with_extension(resolved, Head(exts))
             index_file_path == Path_join(resolved, "index." \o Head(exts))
         IN IF Path_exists(files, with_ext) THEN Some(Path_components(with_ext))
            ELSE IF Path_exists(files, index_file_path)
                 THEN Some(Path_components(index_file_path))
            ELSE TryExtensions(files, resolved, Tail(exts))

\* LanguageAdapter::resolve_import (the default implementation)
resolve_import(files, from_file, import_path) ==
    IF starts_with(import_path, ".") /\ Path_parent(from_file) # None
    THEN TryExtensions(files, Path_join(Path_parent(from_file)[1], import_path),
                       file_extensions)
    ELSE None

-----------------------------------------------------------------------------
(* ProjectIndexer *)

\* find_adapter: the first registered adapter that can handle the path
find_adapter(path) == IF can_handle(path) THEN Some("typescript") ELSE None

\* iter().find(pred)
Find(seq, Pred(_)) ==
    LET hits == SelectSeq(seq, Pred) IN IF hits = <<>> THEN None ELSE Some(Head(hits))

RECURSIVE AddSymbols(_, _)
AddSymbols(t, syms) ==
    IF syms = <<>> THEN t
    ELSE AddSymbols(SymbolTable_add_symbol(t, Head(syms)), Tail(syms))

RECURSIVE AddCalls(_, _, _, _)
AddCalls(g, uri, syms, calls) ==
    IF calls = <<>> THEN g
    ELSE LET call == Head(calls)
             caller_scope ==
                 Find(syms, LAMBDA s :
                     /\ s.location.range.start.line <= call.location.start.line
                     /\ s.location.range.end.line >= call.location.end.line)
             g1 == IF caller_scope = None THEN g
                   ELSE CallGraph_add_call(g,
                            CallSite(caller_scope[1].id, caller_scope[1].id,
                                     SymbolLocation(uri, call.location, call.location),
                                     IF call.is_constructor THEN "Constructor"
                                     ELSE "Direct"))
         IN AddCalls(g1, uri, syms, Tail(calls))

RECURSIVE AddTypeRelations(_, _, _)
AddTypeRelations(h, syms, relations) ==
    IF relations = <<>> THEN h
    ELSE LET relation == Head(relations)
             child == Find(syms, LAMBDA s : s.name = relation.child_name)
             parent == Find(syms, LAMBDA s : s.name = relation.parent_name)
             h1 == IF child = None \/ parent = None THEN h
                   ELSE IF relation.is_implements
                        THEN TypeHierarchy_add_implements(h, child[1].id, parent[1].id)
                   ELSE TypeHierarchy_add_extends(h, child[1].id, parent[1].id)
         IN AddTypeRelations(h1, syms, Tail(relations))

RECURSIVE AddImports(_, _, _, _)
AddImports(d, files, path, imports) ==
    IF imports = <<>> THEN d
    ELSE LET resolved == resolve_import(files, path, Head(imports).module_path)
             d1 == IF resolved = None THEN d
                   ELSE DependencyGraph_add_import(d, path, resolved[1])
         IN AddImports(d1, files, path, Tail(imports))

\* index_file: what it returns (Ok as Some, Err as None), the index and the
\* id counter it leaves.
index_file(idx, files, counter, path) ==
    IF find_adapter(path) = None \/ read_to_string(files, path) = None
    THEN [result |-> None, index |-> idx, counter |-> counter]
    ELSE LET uri == path_to_uri(path)
             Ingest(a) ==
                 LET result == a.result
                     exported == SelectSeq(result.symbols, LAMBDA s : s.exported)
                     export_symbols == [i \in DOMAIN exported |-> exported[i].id]
                 IN [result |-> Some(result),
                     index |->
                        [symbols |-> AddSymbols(idx.symbols, result.symbols),
                         call_graph |->
                             AddCalls(idx.call_graph, uri, result.symbols, result.calls),
                         type_hierarchy |->
                             AddTypeRelations(idx.type_hierarchy, result.symbols,
                                              result.type_relations),
                         dependencies |->
                             DependencyGraph_set_exports(
                                 AddImports(idx.dependencies, files, path, result.imports),
                                 path, export_symbols)],
                     counter |-> a.counter]
         IN Ingest(analyze(uri, files[path], counter))

\* A reindex_file that keeps the previous version when the file cannot be
\* indexed.
reindex_file_keeps_previous(idx, files, counter, path) ==
    IF find_adapter(path) = None \/ read_to_string(files, path) = None
    THEN [result |-> None, index |-> idx, counter |-> counter]
    ELSE index_file(ProjectIndex_remove_file(idx, path_to_uri(path)), files, counter, path)

\* reindex_file: remove_file(uri), then index_file(path)
reindex_file(idx, files, counter, path) ==
    index_file(ProjectIndex_remove_file(idx, path_to_uri(path)), files, counter, path)

\* IndexingStats::default
IndexingStats_default ==
    [files_indexed |-> 0, symbols_found |-> 0, imports_found |-> 0, exports_found |-> 0,
     calls_found |-> 0, type_relations_found |-> 0, errors |-> <<>>]

\* The names index_directory_recursive skips.
IgnoredNames == {"node_modules", "target", "dist", "build", "__pycache__"}

RECURSIVE index_directory_recursive(_, _, _, _)
RECURSIVE IndexEntries(_, _, _, _)

\* index_directory_recursive(dir, stats).  `run` holds the index, the id counter,
\* the stats, the files given to index_file so far (history) and whether the
\* traversal has returned an Err.
index_directory_recursive(run, files, dir, order) ==
    LET entries == read_dir(files, dir, order)
    IN IF entries = None THEN [run EXCEPT !.failed = TRUE]
       ELSE IndexEntries(run, files, entries[1], order)

\* The loop over the entries of one directory.
IndexEntries(run, files, entries, order) ==
    IF entries = <<>> \/ run.failed THEN run
    ELSE LET path == Head(entries)
             name == Path_file_name(path)
             Counted(r) ==
                 IF r.result # None
                 THEN [run EXCEPT
                         !.index = r.index, !.counter = r.counter,
                         !.given = Append(@, path),
                         !.stats.files_indexed = @ + 1,
                         !.stats.symbols_found = @ + Len(r.result[1].symbols),
                         !.stats.imports_found = @ + Len(r.result[1].imports),
                         !.stats.exports_found = @ + Len(r.result[1].exports),
                         !.stats.calls_found = @ + Len(r.result[1].calls),
                         !.stats.type_relations_found = @ + Len(r.result[1].type_relations)]
                 ELSE [run EXCEPT
                         !.index = r.index, !.counter = r.counter,
                         !.given = Append(@, path),
                         !.stats.errors = Append(@, path)]
             after ==
                 IF starts_with(name, ".") \/ name \in IgnoredNames THEN run
                 ELSE IF Path_is_dir(files, path)
                      THEN index_directory_recursive(run, files, path, order)
                 ELSE IF Path_is_file(files, path) /\ find_adapter(path) # None
                      THEN Counted(index_file(run.index, files, run.counter, path))
                 ELSE run
         IN IndexEntries(after, files, Tail(entries), order)

\* index_directory(dir): the stats (Ok as Some, Err as None), the index and the
\* id counter it leaves, and the files it gave to index_file.
index_directory(idx, files, counter, dir, order) ==
    LET Outcome(run) ==
            [result |-> IF run.failed THEN None ELSE Some(run.stats),
             index |-> run.index, counter |-> run.counter, given |-> run.given]
    IN Outcome(index_directory_recursive(
                   [index |-> idx, counter |-> counter, stats |-> IndexingStats_default,
                    given |-> <<>>, failed |-> FALSE],
                   files, dir, order))

\* The paths given to the indexer: the source files and one no adapter handles.
IndexedPaths == Paths \cup {"/notes.md"}

\* The environment writes a source file.
WriteFile(path, source) ==
    /\ IF path \in DOMAIN disk THEN disk[path] # source ELSE TRUE
    /\ disk' = Put(disk, path, source)
    /\ last' = Call("write", path, None, index)
    /\ UNCHANGED <<index, COUNTER, added, thread, observed, state>>

\* The environment deletes a source file.
DeleteFile(path) ==
    /\ path \in DOMAIN disk
    /\ disk' = Del(disk, path)
    /\ last' = Call("delete", path, None, index)
    /\ UNCHANGED <<index, COUNTER, added, thread, observed, state>>

\* indexer.index_file(path)
IndexFile(path) ==
    /\ COUNTER <= MaxCounter
    /\ LET r == index_file(index, disk, COUNTER, path)
       IN /\ index' = r.index
          /\ COUNTER' = r.counter
          /\ last' = Call("index_file", path, r.result, index)
    /\ UNCHANGED <<disk, added, thread, observed, state>>

\* indexer.reindex_file(path)
ReindexFile(path) ==
    /\ COUNTER <= MaxCounter
    /\ LET r == reindex_file(index, disk, COUNTER, path)
       IN /\ index' = r.index
          /\ COUNTER' = r.counter
          /\ last' = Call("reindex_file", path, r.result, index)
    /\ UNCHANGED <<disk, added, thread, observed, state>>

\* indexer.index.remove_file(uri)
EvictFile(uri) ==
    /\ index' = ProjectIndex_remove_file(index, uri)
    /\ last' = Call("ProjectIndex::remove_file", uri, None, index)
    /\ UNCHANGED <<COUNTER, disk, added, thread, observed, state>>

Next ==
    \/ \E path \in Paths, source \in Sources : WriteFile(path, source)
    \/ \E path \in Paths : DeleteFile(path)
    \/ \E path \in IndexedPaths : IndexFile(path)
    \/ \E path \in IndexedPaths : ReindexFile(path)
    \/ \E uri \in Uris : EvictFile(uri)

Spec == InitCommon /\ [][Next]_vars

AllNames == {"A", "B", "C"}

\* Every call site the graph stores, in either map.
AllCallSites(g) ==
    UNION {g.callers[k] : k \in DOMAIN g.callers} \cup UNION {g.callees[k] : k \in DOMAIN g.callees}

FileIds(idx, uri) == Range(VecOrDefault(idx.symbols.file_symbols, uri))

NamesOf(syms) == [i \in DOMAIN syms |-> syms[i].name]

\* function A and, after it on the same line, a call outside every declaration
SrcOneLine ==
    [decls |-> <<Decl("A", "A", TextRange(0, 0, 0, 15), TextRange(0, 9, 0, 10), TRUE)>>,
     calls |-> <<CallInfo("g", TextRange(0, 16, 0, 19), FALSE)>>,
     type_relations |-> <<>>,
     imports |-> <<>>]

\* The sources whose calls are indexed: calls inside a declaration, on a line
\* of no declaration, and on the line of a declaration after its end.
CallSources == {SrcAB, SrcAC, SrcOneLine}

\* The files are on disk before the indexer runs.
InitCalls ==
    /\ InitThreads
    /\ index = ProjectIndex_new
    /\ COUNTER = 1
    /\ disk \in [Paths -> CallSources]
    /\ last = NoCall
    /\ added = {}

NextCalls ==
    \/ \E path \in IndexedPaths : IndexFile(path)
    \/ \E path \in IndexedPaths : ReindexFile(path)

SpecCalls == InitCalls /\ [][NextCalls]_vars

\* A range spans a location: it starts at or before it and ends at or after it.
Spans(range, location) ==
    Position_le(range.start, location.start) /\ Position_le(location.end, range.end)

\* C24: after index_file returns Ok with result R, every call of R that the
\* range of some symbol of R spans has a call site at its location, and every
\* call site made from a symbol of R is at the location of a call of R that the
\* caller's range spans and has the caller as its callee.
C24_CallSitesOfSpannedCalls ==
    (last.op \in {"index_file", "reindex_file"} /\ last.result # None) =>
        LET R == last.result[1]
            made == {cs \in AllCallSites(index.call_graph) :
                        \E i \in DOMAIN R.symbols : R.symbols[i].id = cs.caller}
        IN /\ \A i \in DOMAIN R.calls :
                 (\E j \in DOMAIN R.symbols :
                     Spans(R.symbols[j].location.range, R.calls[i].location))
                 => \E cs \in made : cs.location.range = R.calls[i].location
           /\ \A cs \in made :
                 /\ cs.callee = cs.caller
                 /\ \E i \in DOMAIN R.calls : cs.location.range = R.calls[i].location
                 /\ \E j \in DOMAIN R.symbols :
                       /\ R.symbols[j].id = cs.caller
                       /\ Spans(R.symbols[j].location.range, cs.location.range)

\* C25: after any index_file, reindex_file and ProjectIndex::remove_file calls,
\* the caller and the callee of every call site of the call graph are symbols
\* of the symbol table.
C25_CallSiteEndpointsAreSymbols ==
    \A cs \in AllCallSites(index.call_graph) :
        /\ SymbolTable_get(index.symbols, cs.caller) # None
        /\ SymbolTable_get(index.symbols, cs.callee) # None

\* A file with call sites was evicted while another file keeps its own.
C25_Witness ==
    /\ last.op = "ProjectIndex::remove_file"
    /\ \E cs \in AllCallSites(last.before.call_graph) : cs.location.uri = last.uri
    /\ AllCallSites(index.call_graph) # {}
    /\ \A cs \in AllCallSites(index.call_graph) : cs.location.uri # last.uri

\* C29: an index_file that returns Err leaves the symbol table, the call graph,
\* the type hierarchy and the dependency graph as they were; after a
\* reindex_file that returns Err the symbol table holds no symbol of the file's
\* URI (by file, by id, by name or by qualified name) and the call graph holds
\* no call site located in it.
C29_FailedIndexingLeavesNoHalfState ==
    /\ (last.op = "index_file" /\ last.result = None) => index = last.before
    /\ (last.op = "reindex_file" /\ last.result = None) =>
          LET uri == path_to_uri(last.uri)
          IN /\ SymbolTable_get_file_symbols(index.symbols, uri) = <<>>
             /\ \A id \in DOMAIN index.symbols.symbols :
                   index.symbols.symbols[id].location.uri # uri
             /\ \A n \in AllNames :
                   /\ \A s \in Range(SymbolTable_find_by_name(index.symbols, n)) :
                         s.location.uri # uri
                   /\ \A s \in Range(SymbolTable_find_by_qualified_name(index.symbols, n)) :
                         s.location.uri # uri
             /\ \A c \in AllCallSites(index.call_graph) : c.location.uri # uri

\* A file that was indexed with symbols and calls was deleted and then
\* reindexed.
C29_Witness ==
    /\ last.op = "reindex_file"
    /\ last.result = None
    /\ SymbolTable_get_file_symbols(last.before.symbols, path_to_uri(last.uri)) # <<>>
    /\ \E c \in AllCallSites(last.before.call_graph) :
          c.location.uri = path_to_uri(last.uri)

\* C3: after reindex_file(path) returns Ok, find_by_name(n) holds, for that
\* file, exactly the symbols of the new analysis named n (so none for a name the
\* new source dropped and one for each name it defines once), and no call site
\* made from the previous version of the file remains.
C3_ReindexLeavesOnlyNewVersion ==
    (last.op = "reindex_file" /\ last.result # None) =>
        LET uri == path_to_uri(last.uri)
            R == last.result[1]
            old_ids == FileIds(last.before, uri)
            new_ids == {R.symbols[i].id : i \in DOMAIN R.symbols}
            elsewhere(name) ==
                SelectSeq(SymbolTable_find_by_name(last.before.symbols, name),
                          LAMBDA s : s.location.uri # uri)
        IN /\ \A name \in AllNames :
                /\ SelectSeq(SymbolTable_find_by_name(index.symbols, name),
                             LAMBDA s : s.location.uri = uri)
                     = SelectSeq(R.symbols, LAMBDA s : s.name = name)
                /\ Len(SymbolTable_find_by_name(index.symbols, name))
                     = Len(elsewhere(name)) + Len(SelectSeq(R.symbols, LAMBDA s : s.name = name))
           /\ \A c \in AllCallSites(index.call_graph) :
                /\ c.caller \notin old_ids
                /\ c.callee \notin old_ids
                /\ c.location.uri = uri => c.caller \in new_ids

\* The scenario: the only indexed file defined A and B (with a call in B), its
\* source now defines A and C, and reindex_file has returned.
C3_Witness ==
    /\ last.op = "reindex_file" /\ last.result # None
    /\ NamesOf(SymbolTable_get_file_symbols(last.before.symbols, path_to_uri(last.uri)))
         = <<"A", "B">>
    /\ DOMAIN last.before.symbols.file_symbols = {path_to_uri(last.uri)}
    /\ \E c \in AllCallSites(last.before.call_graph) : c.location.uri = path_to_uri(last.uri)
    /\ NamesOf(last.result[1].symbols) = <<"A", "C">>
    /\ SymbolTable_find_by_name(index.symbols, "B") = <<>>
    /\ Len(SymbolTable_find_by_name(index.symbols, "C")) = 1
    /\ Len(SymbolTable_find_by_name(index.symbols, "A")) = 1

\* Number of edges in one map of the type hierarchy.
EdgeCount(m) ==
    LET RECURSIVE Sum(_)
        Sum(ks) == IF ks = {} THEN 0
                   ELSE LET k == CHOOSE x \in ks : TRUE IN Len(m[k]) + Sum(ks \ {k})
    IN Sum(DOMAIN m)

\* A symbol without its id.
Anonymous(s) ==
    [name |-> s.name, qualified_name |-> s.qualified_name, location |-> s.location,
     exported |-> s.exported]

\* What the index holds for a file, up to the symbol ids.
FileContent(idx, path) ==
    LET uri == path_to_uri(path)
        syms == SymbolTable_get_file_symbols(idx.symbols, uri)
    IN [symbols |-> [i \in DOMAIN syms |-> Anonymous(syms[i])],
        call_sites |-> Cardinality({c \in AllCallSites(idx.call_graph) : c.location.uri = uri}),
        outgoing |-> CallGraph_len(idx.call_graph),
        type_edges |-> EdgeCount(idx.type_hierarchy.supertypes)
                         + EdgeCount(idx.type_hierarchy.subtypes)
                         + EdgeCount(idx.type_hierarchy.implements)
                         + EdgeCount(idx.type_hierarchy.implementors),
        imports |-> DependencyGraph_get_imports(idx.dependencies, path),
        exports |-> Len(DependencyGraph_get_exports(idx.dependencies, path))]

\* C4: a second reindex_file(path) in a row, on unchanged source, leaves the
\* index with the same content for the file as the first one left, up to the
\* symbol ids: as many symbols, call sites, type-hierarchy edges, import edges
\* and exports.
C4_SecondReindexChangesNothing ==
    (/\ last.op = "reindex_file" /\ last.result # None
     /\ last.prev = [op |-> "reindex_file", uri |-> last.uri, ok |-> TRUE]) =>
        FileContent(index, last.uri) = FileContent(last.before, last.uri)

\* C5 as stated: after index_file(f) returns Ok(R), get_file_symbols(uri(f)) is
\* R.symbols, in order, with nothing else.
C5_FileSymbolsAreTheResult ==
    (last.op = "index_file" /\ last.result # None) =>
        SymbolTable_get_file_symbols(index.symbols, path_to_uri(last.uri))
          = last.result[1].symbols

\* C5 as amended: after index_file(f) returns Ok(R), get_file_symbols(uri(f)) is
\* what the table held for uri(f) before the call followed by R.symbols, in
\* order: R.symbols alone when the file was not indexed before, and after
\* reindex_file, which evicts the file first.
C5_FileSymbolsEndWithTheResult ==
    /\ (last.op = "index_file" /\ last.result # None) =>
          SymbolTable_get_file_symbols(index.symbols, path_to_uri(last.uri))
            = SymbolTable_get_file_symbols(last.before.symbols, path_to_uri(last.uri))
                \o last.result[1].symbols
    /\ (last.op = "reindex_file" /\ last.result # None) =>
          SymbolTable_get_file_symbols(index.symbols, path_to_uri(last.uri))
            = last.result[1].symbols

\* index_file has ingested two symbols for a file that was not indexed, next to
\* another indexed file.
C5_Witness ==
    /\ last.op = "index_file" /\ last.result # None
    /\ SymbolTable_get_file_symbols(last.before.symbols, path_to_uri(last.uri)) = <<>>
    /\ last.before.symbols.file_symbols # EmptyMap
    /\ Len(last.result[1].symbols) = 2

\* C12: eviction through the project index cleans the dependency graph.  After
\* ProjectIndex::remove_file(uri) the file has no import, is an importer of no
\* file and has no export record; after reindex_file(path) returns Ok the
\* file's imports are the ones resolved from the new source, and it is an
\* importer of exactly those files.
C12_EvictionCleansDependencies ==
    /\ last.op = "ProjectIndex::remove_file" =>
          LET path == uri_to_path(last.uri)[1]
          IN /\ DependencyGraph_get_imports(index.dependencies, path) = {}
             /\ \A target \in Paths :
                   path \notin DependencyGraph_get_importers(index.dependencies, target)
             /\ DependencyGraph_get_exports(index.dependencies, path) = <<>>
    /\ (last.op = "reindex_file" /\ last.result # None) =>
          LET path == last.uri
              fresh == index_file(ProjectIndex_new, disk, COUNTER, path).index.dependencies
          IN /\ DependencyGraph_get_imports(index.dependencies, path)
                  = DependencyGraph_get_imports(fresh, path)
             /\ \A target \in Paths :
                   path \in DependencyGraph_get_importers(index.dependencies, target)
                     <=> target \in DependencyGraph_get_imports(fresh, path)

\* C13: after ProjectIndex::remove_file(uri) the type hierarchy holds no edge
\* with an endpoint among the symbol ids of the evicted file: for such an id the
\* four queries return nothing, and for no id do they return such an id.
C13_EvictionCleansTypeHierarchy ==
    last.op = "ProjectIndex::remove_file" =>
        LET evicted == FileIds(last.before, last.uri)
            Edges(id) ==
                Range(TypeHierarchy_get_supertypes(index.type_hierarchy, id))
                  \cup Range(TypeHierarchy_get_subtypes(index.type_hierarchy, id))
                  \cup Range(TypeHierarchy_get_interfaces(index.type_hierarchy, id))
                  \cup Range(TypeHierarchy_get_implementors(index.type_hierarchy, id))
        IN \A id \in 1..(COUNTER - 1) :
              /\ id \in evicted => Edges(id) = {}
              /\ Edges(id) \cap evicted = {}

-----------------------------------------------------------------------------
(* The symbol table driven through its own interface *)

\* table.add_symbol(symbol) for a symbol built with a new id
AddSymbol(name, qualified_name, uri) ==
    /\ COUNTER <= MaxId
    /\ LET new == SymbolId_new(COUNTER)
           symbol == SmartSymbol(new.id, name, qualified_name,
                                 SymbolLocation(uri, UnitRange, UnitRange), FALSE)
       IN /\ COUNTER' = new.counter
          /\ index' = [index EXCEPT !.symbols = SymbolTable_add_symbol(@, symbol)]
          /\ added' = added \cup {symbol}
          /\ last' = Call("add_symbol", uri, Some(new.id), index)
    /\ UNCHANGED <<disk, thread, observed, state>>

\* table.remove_file(uri)
RemoveFile(uri) ==
    /\ index' = [index EXCEPT !.symbols = SymbolTable_remove_file(@, uri)]
    /\ last' = Call("remove_file", uri, None, index)
    /\ UNCHANGED <<COUNTER, disk, added, thread, observed, state>>

NextST ==
    \/ \E name \in Names, uri \in Uris :
         \E qualified_name \in {name, "M." \o name} : AddSymbol(name, qualified_name, uri)
    \/ \E uri \in Uris : RemoveFile(uri)

SpecST == InitCommon /\ [][NextST]_vars

\* C1: after remove_file(uri), every symbol that was added with that uri is
\* gone: get(id) returns nothing, find_by_name(name) does not contain it and
\* the qualified-name index has no entry of its qualified name that leads to it.
C1_RemovedSymbolIsGone ==
    last.op = "remove_file" =>
        \A s \in added :
            s.location.uri = last.uri =>
                /\ SymbolTable_get(index.symbols, s.id) = None
                /\ s \notin Range(SymbolTable_find_by_name(index.symbols, s.name))
                /\ ~ (/\ s.qualified_name \in DOMAIN index.symbols.qualified_name_index
                      /\ index.symbols.qualified_name_index[s.qualified_name] = s.id)

\* A file with two symbols was removed while another file keeps a symbol.
C1_Witness ==
    /\ last.op = "remove_file"
    /\ Cardinality({s \in added : s.location.uri = last.uri}) >= 2
    /\ index.symbols.symbols # EmptyMap

\* The adapters' contract: within one file, qualified names are distinct.
QualifiedNamesDistinctPerFile ==
    \A s1, s2 \in added :
        (s1.location.uri = s2.location.uri /\ s1.qualified_name = s2.qualified_name)
            => s1 = s2

\* C2: after any add_symbol and remove_file calls (the files' symbols may share a
\* qualified name across files), every symbol of the primary map is returned by
\* find_by_name(its name), by find_by_qualified_name(its qualified name) and by
\* get_file_symbols(its uri).
C2_ReachableThroughAllIndices ==
    QualifiedNamesDistinctPerFile =>
    \A id \in DOMAIN index.symbols.symbols :
        LET s == index.symbols.symbols[id]
        IN /\ s \in Range(SymbolTable_find_by_name(index.symbols, s.name))
           /\ SymbolTable_find_by_qualified_name(index.symbols, s.qualified_name) = Some(s)
           /\ s \in Range(SymbolTable_get_file_symbols(index.symbols, s.location.uri))

\* A symbol holds at most MaxReferences references.
MaxReferences == 1

SymbolReference(symbol_id, location) ==
    [symbol_id |-> symbol_id, location |-> location,
     is_definition |-> FALSE, is_write |-> FALSE]

\* table.add_reference(reference), for a reference to a symbol the table holds
AddReference(id, uri) ==
    /\ id \in DOMAIN index.symbols.symbols
    /\ Len(SymbolTable_get_references(index.symbols, id)) < MaxReferences
    /\ index' = [index EXCEPT !.symbols =
                    SymbolTable_add_reference(
                        @, SymbolReference(id, SymbolLocation(uri, UnitRange, UnitRange)))]
    /\ last' = Call("add_reference", uri, Some(id), index)
    /\ UNCHANGED <<COUNTER, disk, added, thread, observed, state>>

\* The symbols are top-level: a name is its own qualified name, in either file.
\* The references are located in the symbol's own file.
NextRefs ==
    \/ \E name \in Names, uri \in Uris : AddSymbol(name, name, uri)
    \/ \E uri \in Uris : RemoveFile(uri)
    \/ \E id \in 1 .. MaxId :
         id \in DOMAIN index.symbols.symbols
            /\ AddReference(id, index.symbols.symbols[id].location.uri)

SpecRefs == InitCommon /\ [][NextRefs]_vars

\* C30: after any add_symbol (with fresh ids) and remove_file calls, every id
\* listed in the by-file index, in the by-name index and in the qualified-name
\* index is in the primary map, and the reference map has no entry for a
\* symbol that was added and is no longer in the primary map.
C30_NoDanglingIndexEntry ==
    LET t == index.symbols
    IN /\ \A uri \in DOMAIN t.file_symbols :
             Range(t.file_symbols[uri]) \subseteq DOMAIN t.symbols
       /\ \A name \in DOMAIN t.name_index :
             Range(t.name_index[name]) \subseteq DOMAIN t.symbols
       /\ \A qualified_name \in DOMAIN t.qualified_name_index :
             t.qualified_name_index[qualified_name] \in DOMAIN t.symbols
       /\ \A s \in added :
             s.id \notin DOMAIN t.symbols => s.id \notin DOMAIN t.references

\* A file was removed whose symbol had a reference and shared its name and its
\* qualified name with a symbol of the other file, which stays.
C30_Witness ==
    /\ last.op = "remove_file"
    /\ index.symbols.symbols # EmptyMap
    /\ \E s \in added :
          /\ s.location.uri = last.uri
          /\ s.id \in DOMAIN last.before.symbols.references
          /\ \E o \in added :
                /\ o.id \in DOMAIN index.symbols.symbols
                /\ o.name = s.name
                /\ o.qualified_name = s.qualified_name

-----------------------------------------------------------------------------
(* Position and Range of logos-core *)

\* Lines and columns are drawn from 0 .. MaxCoord.
MaxCoord == 2

\* A Range::contains that takes the end position in.
Range_contains_closed(r, pos) == Position_le(r.start, pos) /\ Position_le(pos, r.end)

\* Range::contains
Range_contains(r, pos) == Position_le(r.start, pos) /\ Position_lt(pos, r.end)

\* Range::is_empty
Range_is_empty(r) == r.start = r.end

Positions == {Position(l, c) : l \in 0 .. MaxCoord, c \in 0 .. MaxCoord}

\* Range::new checks nothing: any two positions make a range.
Ranges == {[start |-> a, end |-> b] : a \in Positions, b \in Positions}

\* A range and a position are given.
InitRange ==
    /\ InitThreads
    /\ index = ProjectIndex_new
    /\ COUNTER = 1
    /\ disk = EmptyMap
    /\ \E r \in Ranges, pos \in Positions :
          last = [NoCall EXCEPT !.arg = Some([range |-> r, pos |-> pos])]
    /\ added = {}

\* range.contains(pos) on the range and the position given.
Contains ==
    /\ last.op = "new"
    /\ last' = [last EXCEPT
                  !.op = "Range::contains",
                  !.result = Some(Range_contains(last.arg[1].range, last.arg[1].pos))]
    /\ UNCHANGED <<index, COUNTER, disk, added, thread, observed, state>>

NextRange == Contains

SpecRange == InitRange /\ [][NextRange]_vars

\* a comes before b in the lexicographic (line, column) order.
LexBefore(a, b) == a.line < b.line \/ (a.line = b.line /\ a.column < b.column)

\* C23: r.contains(p) is true exactly when r.start <= p < r.end in the
\* lexicographic (line, column) order; an empty range contains no position and
\* no range contains its end position.
C23_ContainsIsHalfOpen ==
    last.op = "Range::contains" =>
        LET r == last.arg[1].range
            pos == last.arg[1].pos
        IN /\ last.result[1] <=> (~LexBefore(pos, r.start) /\ LexBefore(pos, r.end))
           /\ Range_is_empty(r) => ~last.result[1]
           /\ pos = r.end => ~last.result[1]

\* A range over two lines was asked for a position of its last line that has
\* a column below the start's, and for its end.
C23_Witness ==
    /\ last.op = "Range::contains"
    /\ last.arg[1].range = TextRange(0, 2, 1, 1)
    /\ last.arg[1].pos = Position(1, 0)
    /\ last.result[1]

-----------------------------------------------------------------------------
(* The Python adapter: visibility and exports *)

\* A module holds up to MaxStatements statements at its top level.
MaxStatements == 2

ends_with(s, suffix) ==
    Len(s) >= Len(suffix) /\ SubSeq(s, Len(s) - Len(suffix) + 1, Len(s)) = suffix

\* AnalysisContext::qualified_name: the names of the scopes and the name,
\* joined by dots
Python_qualified_name(scope_stack, name) ==
    IF scope_stack = <<>> THEN name
    ELSE LET RECURSIVE Join(_)
             Join(names) == IF Len(names) = 1 THEN names[1]
                            ELSE names[1] \o "." \o Join(Tail(names))
         IN Join(scope_stack) \o "." \o name

\* What a definition adds to the result: its symbol and, when exported, its
\* ExportInfo.
Python_push(result, scope_stack, name, kind, visibility, exported) ==
    [symbols |-> Append(result.symbols,
                        [name |-> name, kind |-> kind, visibility |-> visibility,
                         exported |-> exported,
                         qualified_name |-> Python_qualified_name(scope_stack, name)]),
     exports |-> IF exported THEN Append(result.exports, [name |-> name])
                 ELSE result.exports]

RECURSIVE Python_analyze_node(_, _, _)
RECURSIVE Python_analyze_children(_, _, _)

\* analyze_function
Python_analyze_function(node, scope_stack, result) ==
    Python_analyze_children(
        node.body, Append(scope_stack, node.name),
        Python_push(result, scope_stack, node.name,
                    IF scope_stack = <<>> THEN "Function" ELSE "Method",
                    IF starts_with(node.name, "__") /\ ~ends_with(node.name, "__")
                    THEN "Private"
                    ELSE IF starts_with(node.name, "_") THEN "Protected" ELSE "Public",
                    scope_stack = <<>> /\ ~starts_with(node.name, "_")))

\* analyze_class
Python_analyze_class(node, scope_stack, result) ==
    Python_analyze_children(
        node.body, Append(scope_stack, node.name),
        Python_push(result, scope_stack, node.name, "Class",
                    IF starts_with(node.name, "_") THEN "Private" ELSE "Public",
                    scope_stack = <<>> /\ ~starts_with(node.name, "_")))

\* analyze_assignment: a single identifier on the left, or one of the
\* identifiers of a pattern list
Python_analyze_assignment(node, scope_stack, result) ==
    IF node.kind = "assignment"
    THEN Python_push(result, scope_stack, node.name, "Variable",
                     IF starts_with(node.name, "_") THEN "Private" ELSE "Public",
                     ~starts_with(node.name, "_"))
    ELSE Python_push(result, scope_stack, node.name, "Variable",
                     IF starts_with(node.name, "_") THEN "Private" ELSE "Public",
                     FALSE)

\* analyze_node
Python_analyze_node(node, scope_stack, result) ==
    IF node.kind = "function_definition"
    THEN Python_analyze_function(node, scope_stack, result)
    ELSE IF node.kind = "class_definition"
    THEN Python_analyze_class(node, scope_stack, result)
    ELSE IF scope_stack = <<>> THEN Python_analyze_assignment(node, scope_stack, result)
    ELSE result

\* The loop over the named children of a module, a class body or a block.
Python_analyze_children(nodes, scope_stack, result) ==
    IF nodes = <<>> THEN result
    ELSE Python_analyze_children(Tail(nodes), scope_stack,
                                 Python_analyze_node(Head(nodes), scope_stack, result))

\* PythonAdapter::analyze on the statements of a parsed module
Python_analyze(module) ==
    Python_analyze_children(module, <<>>, [symbols |-> <<>>, exports |-> <<>>])

PythonNames == {"f", "_f", "__f", "__f__"}

\* The statements of a module: a function, a class, an assignment to a name or
\* to a pattern list, and a class K with a method or an attribute.
PythonStatements ==
    {[kind |-> kind, name |-> name, body |-> <<>>] :
        kind \in {"function_definition", "class_definition", "assignment",
                  "pattern_assignment"},
        name \in PythonNames}
    \cup {[kind |-> "class_definition", name |-> "K",
           body |-> <<[kind |-> kind, name |-> name, body |-> <<>>]>>] :
             kind \in {"function_definition", "assignment"}, name \in PythonNames}

PythonModules ==
    UNION {[1 .. n -> PythonStatements] : n \in 1 .. MaxStatements}

\* A module's source is given.
InitPython ==
    /\ InitThreads
    /\ index = ProjectIndex_new
    /\ COUNTER = 1
    /\ disk = EmptyMap
    /\ \E module \in PythonModules : last = [NoCall EXCEPT !.arg = Some(module)]
    /\ added = {}

\* adapter.analyze(uri, source) on the module given
AnalyzePython ==
    /\ last.op = "new"
    /\ last' = [last EXCEPT !.op = "PythonAdapter::analyze",
                            !.result = Some(Python_analyze(last.arg[1]))]
    /\ UNCHANGED <<index, COUNTER, disk, added, thread, observed, state>>

NextPython == AnalyzePython

SpecPython == InitPython /\ [][NextPython]_vars

\* C28: every symbol the Python adapter emits is Private when its name has a
\* leading double underscore and no trailing one, Protected when it has
\* another name with a leading underscore, and Public otherwise; and every
\* module-level Public symbol is exported and has an ExportInfo of its name.
C28_PythonVisibilityByName ==
    last.op = "PythonAdapter::analyze" =>
        LET R == last.result[1]
        IN \A i \in DOMAIN R.symbols :
              LET sym == R.symbols[i]
              IN /\ sym.visibility
                      = (IF starts_with(sym.name, "__") /\ ~ends_with(sym.name, "__")
                         THEN "Private"
                         ELSE IF starts_with(sym.name, "_") THEN "Protected"
                         ELSE "Public")
                 /\ (sym.qualified_name = sym.name /\ sym.visibility = "Public") =>
                      /\ sym.exported
                      /\ \E j \in DOMAIN R.exports : R.exports[j].name = sym.name

-----------------------------------------------------------------------------
(* SymbolId::new called from two threads, next to a table that evicts *)

\* A thread calls SymbolId::new(): one fetch_add(1, SeqCst), a single atomic
\* step; the thread keeps the ids it was given, in the order of its calls.
NewId(t) ==
    /\ COUNTER <= MaxId
    /\ \E new \in {SymbolId_new(COUNTER)} :
          /\ COUNTER' = new.counter
          /\ thread' = [thread EXCEPT ![t].ids = Append(@, new.id)]
          /\ last' = Call("SymbolId::new", t, Some(new.id), index)
    /\ UNCHANGED <<index, disk, added, observed, state>>

NextIds ==
    \/ \E t \in Writers : NewId(t)
    \/ \E name \in Names, uri \in Uris : AddSymbol(name, name, uri)
    \/ \E uri \in Uris : RemoveFile(uri)

SpecIds == InitCommon /\ [][NextIds]_vars

\* Every id issued so far: to the threads and to the symbols that were added.
IssuedIds == UNION {Range(thread[t].ids) : t \in Writers} \cup {s.id : s \in added}

\* C22: the ids SymbolId::new has returned, to either thread and to the
\* symbols added (evicted or not), are pairwise different and not zero, the
\* ids one thread received grow with its calls, and every id issued is below
\* the counter, so that no later call returns it again.
C22_IdsUniqueNeverReused ==
    /\ Cardinality(IssuedIds)
         = Len(thread["w1"].ids) + Len(thread["w2"].ids) + Cardinality(added)
    /\ 0 \notin IssuedIds
    /\ \A t \in Writers : \A i, j \in DOMAIN thread[t].ids :
          i < j => thread[t].ids[i] < thread[t].ids[j]
    /\ \A id \in IssuedIds : id < COUNTER
    /\ last.op \in {"SymbolId::new", "add_symbol"} =>
          \A s \in added : SymbolTable_get(index.symbols, s.id) = None =>
              last.result[1] > s.id

\* Both threads were given ids, one of them after the symbol of an earlier id
\* was evicted.
C22_Witness ==
    /\ last.op = "SymbolId::new"
    /\ thread["w1"].ids # <<>>
    /\ thread["w2"].ids # <<>>
    /\ \E s \in added :
          SymbolTable_get(index.symbols, s.id) = None /\ s.id < last.result[1]

-----------------------------------------------------------------------------
(* The call graph driven through its own interface *)

\* Where calls are made, and the two shapes a call at one place can have.
CallStarts == {Position(1, 0), Position(2, 0)}

CallShapes == {[end_column |-> 3, call_type |-> "Direct"],
               [end_column |-> 9, call_type |-> "Constructor"]}

\* The call graph stores call sites while it holds fewer than MaxCalls.
MaxCalls == 2

\* Two ids were issued for the symbols the calls are between.
InitCG ==
    /\ InitThreads
    /\ index = ProjectIndex_new
    /\ COUNTER = 3
    /\ disk = EmptyMap
    /\ last = NoCall
    /\ added = {}

\* graph.add_call(call)
AddCall(caller, callee, uri, start, shape) ==
    /\ CallGraph_len(index.call_graph) < MaxCalls
    /\ LET range == [start |-> start, end |-> Position(start.line, shape.end_column)]
           call == CallSite(caller, callee, SymbolLocation(uri, range, range),
                            shape.call_type)
       IN /\ index' = [index EXCEPT !.call_graph = CallGraph_add_call(@, call)]
          /\ last' = [Call("add_call", uri, None, index) EXCEPT !.arg = Some(call)]
    /\ UNCHANGED <<COUNTER, disk, added, thread, observed, state>>

\* graph.remove_file(uri)
CallGraphRemoveFile(uri) ==
    /\ index' = [index EXCEPT !.call_graph = CallGraph_remove_file(@, uri)]
    /\ last' = Call("CallGraph::remove_file", uri, None, index)
    /\ UNCHANGED <<COUNTER, disk, added, thread, observed, state>>

NextCG ==
    \/ \E caller \in 1..(COUNTER - 1), callee \in 1..(COUNTER - 1), uri \in Uris :
         \E start \in CallStarts, shape \in CallShapes :
            AddCall(caller, callee, uri, start, shape)
    \/ \E uri \in Uris : CallGraphRemoveFile(uri)

SpecCG == InitCG /\ [][NextCG]_vars

\* C9: after any add_call and remove_file calls the two maps hold the same
\* edges: a call site is returned by get_callees(its caller) if and only if it is
\* returned by get_callers(its callee).
C9_MapsHoldTheSameEdges ==
    \A c \in AllCallSites(index.call_graph) :
        c \in CallGraph_get_callees(index.call_graph, c.caller)
            <=> c \in CallGraph_get_callers(index.call_graph, c.callee)

\* remove_file has taken a call site out of a graph that keeps another one.
C9_Witness ==
    /\ last.op = "CallGraph::remove_file"
    /\ \E c \in AllCallSites(last.before.call_graph) : c.location.uri = last.uri
    /\ AllCallSites(index.call_graph) # {}

\* C10: after remove_file(uri), get_callers and get_callees return, for every
\* symbol id, the call sites they returned before that are located in another
\* file: none located in uri, and every other one as before.
C10_RemoveFileFiltersByUri ==
    last.op = "CallGraph::remove_file" =>
        \A id \in 1..(COUNTER - 1) :
            /\ CallGraph_get_callers(index.call_graph, id)
                 = {c \in CallGraph_get_callers(last.before.call_graph, id) :
                        c.location.uri # last.uri}
            /\ CallGraph_get_callees(index.call_graph, id)
                 = {c \in CallGraph_get_callees(last.before.call_graph, id) :
                        c.location.uri # last.uri}

\* One symbol had a call site in the removed file and one in another file.
C10_Witness ==
    /\ last.op = "CallGraph::remove_file"
    /\ \E id \in 1..(COUNTER - 1) :
          /\ \E c \in CallGraph_get_callees(last.before.call_graph, id) :
                c.location.uri = last.uri
          /\ \E c \in CallGraph_get_callees(last.before.call_graph, id) :
                c.location.uri # last.uri
          /\ CallGraph_get_callees(index.call_graph, id) # {}

\* C11: the call graph is a set under the identity (caller, callee,
\* location.uri, location.range.start): add_call of a call site that equals a
\* stored one on these four components, whatever its call_type and range.end,
\* leaves the number of call sites of get_callees(caller) and of
\* get_callers(callee) as it was, and add_call of one that differs from every
\* stored one on a component raises both by one.
C11_AddCallCountsByIdentity ==
    last.op = "add_call" =>
        LET call == last.arg[1]
            SameIdentity(e) ==
                /\ e.caller = call.caller
                /\ e.callee = call.callee
                /\ e.location.uri = call.location.uri
                /\ e.location.range.start = call.location.range.start
            callees_before == CallGraph_get_callees(last.before.call_graph, call.caller)
            callers_before == CallGraph_get_callers(last.before.call_graph, call.callee)
        IN /\ Cardinality(CallGraph_get_callees(index.call_graph, call.caller))
                = Cardinality(callees_before)
                    + (IF \E e \in callees_before : SameIdentity(e) THEN 0 ELSE 1)
           /\ Cardinality(CallGraph_get_callers(index.call_graph, call.callee))
                = Cardinality(callers_before)
                    + (IF \E e \in callers_before : SameIdentity(e) THEN 0 ELSE 1)

\* add_call was given a call site with the identity of a stored one and another
\* call_type and range.end.
C11_Witness ==
    /\ last.op = "add_call"
    /\ \E e \in CallGraph_get_callees(last.before.call_graph, last.arg[1].caller) :
          /\ CallSite_eq(e, last.arg[1])
          /\ e.call_type # last.arg[1].call_type
          /\ e.location.range.end # last.arg[1].location.range.end
    /\ CallGraph_get_callees(index.call_graph, last.arg[1].caller)
         = CallGraph_get_callees(last.before.call_graph, last.arg[1].caller)

-----------------------------------------------------------------------------
(* The dependency graph driven through its own interface *)

DepPaths == Paths \cup {"/c.ts"}

\* graph.add_import(from, to)
AddImport(from, to) ==
    /\ index' = [index EXCEPT !.dependencies = DependencyGraph_add_import(@, from, to)]
    /\ last' = Call("add_import", from, None, index)
    /\ UNCHANGED <<COUNTER, disk, added, thread, observed, state>>

\* graph.set_exports(file, symbols)
SetExports(file, ids) ==
    /\ index' = [index EXCEPT !.dependencies = DependencyGraph_set_exports(@, file, ids)]
    /\ last' = Call("set_exports", file, None, index)
    /\ UNCHANGED <<COUNTER, disk, added, thread, observed, state>>

\* graph.remove_file(file)
DependencyGraphRemoveFile(file) ==
    /\ index' = [index EXCEPT !.dependencies = DependencyGraph_remove_file(@, file)]
    /\ last' = Call("DependencyGraph::remove_file", file, None, index)
    /\ UNCHANGED <<COUNTER, disk, added, thread, observed, state>>

NextDG ==
    \/ \E from \in DepPaths, to \in DepPaths : AddImport(from, to)
    \/ \E file \in Paths : SetExports(file, <<1>>)
    \/ \E file \in DepPaths : DependencyGraphRemoveFile(file)

SpecDG == InitCG /\ [][NextDG]_vars

\* C8: after any add_import and remove_file calls the forward and the reverse map
\* are inverse of each other: b is in get_imports(a) if and only if a is in
\* get_importers(b).
C8_ImportsAndImportersAreInverse ==
    \A a \in DepPaths, b \in DepPaths :
        b \in DependencyGraph_get_imports(index.dependencies, a)
            <=> a \in DependencyGraph_get_importers(index.dependencies, b)

\* remove_file has removed a file that imported and was imported, and an edge
\* between other files remains.
C8_Witness ==
    /\ last.op = "DependencyGraph::remove_file"
    /\ DependencyGraph_get_imports(last.before.dependencies, last.uri) # {}
    /\ DependencyGraph_get_importers(last.before.dependencies, last.uri) \ {last.uri} # {}
    /\ \E a \in DepPaths : DependencyGraph_get_imports(index.dependencies, a) # {}

-----------------------------------------------------------------------------
(* index_directory on a workspace *)

WorkspaceRoot == "/ws"

\* The files a workspace can hold: at the root, in a directory, in a directory
\* with an ignored name, hidden in a directory, and one no adapter handles.
WorkspaceFiles == {"/ws/a.ts", "/ws/lib/b.ts", "/ws/dist/c.ts", "/ws/lib/.d.ts", "/ws/notes.md"}

\* The orders in which the platform lists the entries of a directory.
EntryOrders ==
    {<<".d.ts", "a.ts", "b.ts", "c.ts", "dist", "lib", "notes.md">>,
     <<"notes.md", "lib", "dist", "c.ts", "b.ts", "a.ts", ".d.ts">>}

\* A source with one exported declaration.
SrcA ==
    [decls |-> <<Decl("A", "A", TextRange(0, 0, 2, 1), TextRange(0, 6, 0, 7), TRUE)>>,
     calls |-> <<>>, type_relations |-> <<>>, imports |-> <<>>]

\* The workspaces: any of the files, /ws/a.ts readable or not, and /ws/lib
\* readable or not.
Workspaces ==
    {[path \in present \cup locked |->
         IF path \in locked THEN (IF path = "/ws/lib" THEN LockedDir ELSE LockedFile)
         ELSE SrcA] :
       present \in SUBSET WorkspaceFiles, locked \in SUBSET {"/ws/a.ts", "/ws/lib"}}

InitDir ==
    /\ InitThreads
    /\ index = ProjectIndex_new
    /\ COUNTER = 1
    /\ disk \in Workspaces
    /\ last = NoCall
    /\ added = {}

\* indexer.index_directory(dir); the history keeps the order of the listing and
\* the files given to index_file.
IndexDirectory(dir, order) ==
    /\ COUNTER <= MaxId
    /\ \E r \in {index_directory(index, disk, COUNTER, dir, order)} :
          /\ index' = r.index
          /\ COUNTER' = r.counter
          /\ last' = [Call("index_directory", dir, r.result, index)
                        EXCEPT !.arg = Some([order |-> order, given |-> r.given])]
    /\ UNCHANGED <<disk, added, thread, observed, state>>

NextDir ==
    \E dir \in {WorkspaceRoot, "/ws/lib", "/ws/dist", "/ws/a.ts"}, order \in EntryOrders :
        IndexDirectory(dir, order)

SpecDir == InitDir /\ [][NextDir]_vars

RECURSIVE HasIgnoredName(_)
\* A path relative to the root has a component that index_directory skips.
HasIgnoredName(relative) ==
    LET slash == FirstIndexOf(relative, "/", 1)
        name == IF slash = 0 THEN relative ELSE SubSeq(relative, 1, slash - 1)
    IN \/ starts_with(name, ".")
       \/ name \in IgnoredNames
       \/ slash # 0 /\ HasIgnoredName(SubSeq(relative, slash + 1, Len(relative)))

\* The regular files below the root that are, or lie under, no skipped entry.
NotIgnoredBelow(root) ==
    {path \in DOMAIN disk :
        /\ Path_is_file(disk, path)
        /\ starts_with(path, root \o "/")
        /\ ~HasIgnoredName(SubSeq(path, Len(root) + 2, Len(path)))}

\* C20: index_directory(root) gives index_file no file that is, or lies under,
\* an entry below the root whose name begins with '.' or is node_modules,
\* target, dist, build or __pycache__, and gives it every other regular file
\* below the root that has an adapter exactly once.
C20_SkipsIgnoredIndexesTheRestOnce ==
    last.op = "index_directory" =>
        LET given == last.arg[1].given
        IN /\ \A i \in DOMAIN given : given[i] \in NotIgnoredBelow(last.uri)
           /\ \A path \in NotIgnoredBelow(last.uri) :
                 find_adapter(path) # None =>
                    Cardinality({i \in DOMAIN given : given[i] = path}) = 1

\* The directories below the root that may not be read and are, or lie under,
\* no skipped entry.
UnreadableDirsBelow(root) ==
    {path \in DOMAIN disk :
        /\ disk[path] = LockedDir
        /\ starts_with(path, root \o "/")
        /\ ~HasIgnoredName(SubSeq(path, Len(root) + 2, Len(path)))}

\* C21: index_directory(root) of a readable root returns the statistics: every
\* file with an adapter and every sub-directory below the root whose read
\* fails is recorded in errors, and every other file with an adapter that is
\* under no skipped entry is indexed and counted.
C21_RecoversFromIOFailures ==
    (last.op = "index_directory" /\ read_dir(disk, last.uri, last.arg[1].order) # None) =>
        IF last.result = None THEN FALSE
        ELSE LET stats == last.result[1]
                 eligible == {path \in NotIgnoredBelow(last.uri) : find_adapter(path) # None}
                 unreadable == {path \in eligible : disk[path] = LockedFile}
             IN /\ \A path \in unreadable \cup UnreadableDirsBelow(last.uri) :
                      path \in Range(stats.errors)
                /\ stats.files_indexed = Cardinality(eligible \ unreadable)
                /\ \A path \in eligible \ unreadable :
                      SymbolTable_get_file_symbols(index.symbols, path_to_uri(path)) # <<>>

-----------------------------------------------------------------------------
(* The Basic document index (SymbolIndex), the TODO index and the documents *)

\* str::to_lowercase, on the names of the model
to_lowercase(name) ==
    CASE name = "A" -> "a" [] name = "B" -> "b" [] name = "C" -> "c" [] OTHER -> name

\* logos_core::Symbol
Symbol(name, range, selection_range, children) ==
    [name |-> name, range |-> range, selection_range |-> selection_range,
     children |-> children]

\* IndexedSymbol::from_symbol
IndexedSymbol_from_symbol(symbol, uri, container) ==
    [name |-> symbol.name, uri |-> uri, range |-> symbol.range,
     selection_range |-> symbol.selection_range, container |-> container]

RECURSIVE index_symbols_recursive(_, _, _)
\* SymbolIndex::index_symbols_recursive: what it pushes onto `indexed`
index_symbols_recursive(uri, symbols, container) ==
    IF symbols = <<>> THEN <<>>
    ELSE LET symbol == Head(symbols)
         IN <<IndexedSymbol_from_symbol(symbol, uri, container)>>
              \o index_symbols_recursive(uri, symbol.children, Some(symbol.name))
              \o index_symbols_recursive(uri, Tail(symbols), container)

\* InvertedIndex::add: the uri joins the set kept under the lowercased name
InvertedIndex_add(inverted, name, uri) ==
    Put(inverted, to_lowercase(name), SetOrDefault(inverted, to_lowercase(name)) \cup {uri})

\* InvertedIndex::remove: the uri leaves the set kept under the lowercased name
InvertedIndex_remove(inverted, name, uri) ==
    LET key == to_lowercase(name)
    IN IF key \notin DOMAIN inverted THEN inverted
       ELSE IF inverted[key] \ {uri} = {} THEN Del(inverted, key)
       ELSE Put(inverted, key, inverted[key] \ {uri})

RECURSIVE AddNames(_, _, _)
AddNames(inverted, indexed, uri) ==
    IF indexed = <<>> THEN inverted
    ELSE AddNames(InvertedIndex_add(inverted, Head(indexed).name, uri), Tail(indexed), uri)

RECURSIVE RemoveNames(_, _, _)
RemoveNames(inverted, indexed, uri) ==
    IF indexed = <<>> THEN inverted
    ELSE RemoveNames(InvertedIndex_remove(inverted, Head(indexed).name, uri),
                     Tail(indexed), uri)

SymbolIndex_remove_document(si, uri) ==
    IF uri \in DOMAIN si.by_document
    THEN [by_document |-> Del(si.by_document, uri),
          inverted |-> RemoveNames(si.inverted, si.by_document[uri], uri)]
    ELSE si

\* An index_document that adds to the document's entry and removes nothing.
SymbolIndex_index_document_appends(si, uri, symbols) ==
    LET indexed == index_symbols_recursive(uri, symbols, None)
    IN [by_document |-> Put(si.by_document, uri,
                            VecOrDefault(si.by_document, uri) \o indexed),
        inverted |-> AddNames(si.inverted, indexed, uri)]

SymbolIndex_index_document(si, uri, symbols) ==
    LET removed == SymbolIndex_remove_document(si, uri)
        indexed == index_symbols_recursive(uri, symbols, None)
    IN [by_document |-> Put(removed.by_document, uri, indexed),
        inverted |-> AddNames(removed.inverted, indexed, uri)]

SymbolIndex_get_document_symbols(si, uri) == VecOrDefault(si.by_document, uri)

\* TodoIndex::index_document: the document's entry is its TODO items
TodoIndex_index_document(todo_index, uri, content) == Put(todo_index, uri, content.todos)

\* TodoIndex::remove_document
TodoIndex_remove_document(todo_index, uri) == Del(todo_index, uri)

\* Document::new
Document_new(uri, language_id, content) ==
    [uri |-> uri, language_id |-> language_id, content |-> content]

\* Document::set_content
Document_set_content(doc, content) == [doc EXCEPT !.content = content]

\* SymbolIndex::symbol_count: the lengths of the documents' entries, summed
SymbolIndex_symbol_count(si) ==
    LET RECURSIVE Sum(_)
        Sum(uris) == IF uris = {} THEN 0
                     ELSE LET uri == CHOOSE u \in uris : TRUE
                          IN Len(si.by_document[uri]) + Sum(uris \ {uri})
    IN Sum(DOMAIN si.by_document)

\* The symbol lists a document gives: class A with a method B followed by a
\* function C, a function B alone, and no symbol.
SymbolLists ==
    {<<Symbol("A", TextRange(0, 0, 4, 1), TextRange(0, 6, 0, 7),
              <<Symbol("B", TextRange(1, 2, 3, 3), TextRange(1, 2, 1, 3), <<>>)>>),
       Symbol("C", TextRange(5, 0, 6, 1), TextRange(5, 9, 5, 10), <<>>)>>,
     <<Symbol("B", TextRange(0, 0, 1, 1), TextRange(0, 9, 0, 10), <<>>)>>,
     <<>>}

\* symbol_index.index_document(uri, symbols); the history keeps the symbols.
IndexDocument(uri, symbols) ==
    /\ state' = [state EXCEPT
                   !.symbol_index = SymbolIndex_index_document(@, uri, symbols)]
    /\ last' = [op |-> "SymbolIndex::index_document", uri |-> uri, result |-> None,
                before |-> state, prev |-> NoCall.prev, arg |-> Some(symbols)]
    /\ UNCHANGED <<index, COUNTER, disk, added, thread, observed>>

\* symbol_index.remove_document(uri)
RemoveDocument(uri) ==
    /\ state' = [state EXCEPT !.symbol_index = SymbolIndex_remove_document(@, uri)]
    /\ last' = [op |-> "SymbolIndex::remove_document", uri |-> uri, result |-> None,
                before |-> state, prev |-> NoCall.prev, arg |-> None]
    /\ UNCHANGED <<index, COUNTER, disk, added, thread, observed>>

InitBasic ==
    /\ InitThreads
    /\ index = ProjectIndex_new
    /\ COUNTER = 1
    /\ disk = EmptyMap
    /\ last = [NoCall EXCEPT !.before = State_new]
    /\ added = {}

NextBasic ==
    \/ \E uri \in Uris, symbols \in SymbolLists : IndexDocument(uri, symbols)
    \/ \E uri \in Uris : RemoveDocument(uri)

SpecBasic == InitBasic /\ [][NextBasic]_vars

RECURSIVE Flattened(_, _)
\* The names of a symbol list with their containers: each symbol, then its
\* children under its name, then the symbols after it.
Flattened(symbols, container) ==
    IF symbols = <<>> THEN <<>>
    ELSE <<[name |-> Head(symbols).name, container |-> container]>>
           \o Flattened(Head(symbols).children, Some(Head(symbols).name))
           \o Flattened(Tail(symbols), container)

\* C27: after index_document(uri, S2), get_document_symbols(uri) is the
\* flattened S2 (parents before their children, children with the parent's
\* name as container) whatever the entry held before, and symbol_count has
\* lost the old entry's symbols and gained those of S2; after
\* remove_document(uri) the entry is gone and symbol_count has lost its symbols.
C27_ReindexReplacesTheEntry ==
    LET now == state.symbol_index
        was == last.before.symbol_index
        entry == SymbolIndex_get_document_symbols(now, last.uri)
        old == SymbolIndex_get_document_symbols(was, last.uri)
    IN /\ last.op = "SymbolIndex::index_document" =>
            /\ [i \in DOMAIN entry |->
                   [name |-> entry[i].name, container |-> entry[i].container]]
                 = Flattened(last.arg[1], None)
            /\ \A i \in DOMAIN entry : entry[i].uri = last.uri
            /\ SymbolIndex_symbol_count(now)
                 = SymbolIndex_symbol_count(was) - Len(old) + Len(Flattened(last.arg[1], None))
       /\ last.op = "SymbolIndex::remove_document" =>
            /\ entry = <<>>
            /\ last.uri \notin DOMAIN now.by_document
            /\ SymbolIndex_symbol_count(now) = SymbolIndex_symbol_count(was) - Len(old)
       /\ last.op \in {"SymbolIndex::index_document", "SymbolIndex::remove_document"} =>
            \A uri \in Uris \ {last.uri} :
                SymbolIndex_get_document_symbols(now, uri)
                  = SymbolIndex_get_document_symbols(was, uri)

\* A document indexed with one symbol was indexed again with a class, its
\* method and a function, while another document is indexed.
C27_Witness ==
    /\ last.op = "SymbolIndex::index_document"
    /\ Len(SymbolIndex_get_document_symbols(last.before.symbol_index, last.uri)) = 1
    /\ Len(SymbolIndex_get_document_symbols(state.symbol_index, last.uri)) = 3
    /\ \E uri \in Uris \ {last.uri} :
          SymbolIndex_get_document_symbols(state.symbol_index, uri) # <<>>

-----------------------------------------------------------------------------
(* The daemon's State *)

\* Ok(()) of enable_smart_mode
OkUnit == Some("()")

State_is_smart_mode(st) == st.mode = "Smart"

State_get_indexer(st) == st.project_indexer

\* An enable_basic_mode that switches the mode and keeps the indexer.
State_enable_basic_mode_keeps_indexer(st) == [st EXCEPT !.mode = "Basic"]

\* An enable_basic_mode that starts over from State::new.
State_enable_basic_mode_resets(st) == [State_new EXCEPT !.root_path = st.root_path]

State_enable_basic_mode(st) == [st EXCEPT !.project_indexer = None, !.mode = "Basic"]

\* What enable_smart_mode indexes: the workspace when the root is set and
\* exists, nothing otherwise.
IndexWorkspace(st, files, counter, order) ==
    IF st.root_path # None /\ Path_exists(files, PathBuf_from(st.root_path[1]))
    THEN index_directory(ProjectIndex_new, files, counter,
                         PathBuf_from(st.root_path[1]), order)
    ELSE [result |-> Some(IndexingStats_default), index |-> ProjectIndex_new,
          counter |-> counter, given |-> <<>>]

\* An enable_smart_mode that gives up when index_directory fails.
State_enable_smart_mode_rolls_back(st, files, counter, order) ==
    LET Enabled(indexed) ==
            IF indexed.result = None
            THEN [result |-> None, state |-> st, counter |-> indexed.counter]
            ELSE [result |-> OkUnit,
                  state |-> [st EXCEPT !.project_indexer = Some(indexed.index),
                                       !.mode = "Smart"],
                  counter |-> indexed.counter]
    IN IF st.mode = "Smart" THEN [result |-> OkUnit, state |-> st, counter |-> counter]
       ELSE Enabled(IndexWorkspace(st, files, counter, order))

\* enable_smart_mode: what it returns, the State and the id counter it leaves.
State_enable_smart_mode(st, files, counter, order) ==
    LET Enabled(indexed) ==
            [result |-> OkUnit,
             state |-> [st EXCEPT !.project_indexer = Some(indexed.index),
                                  !.mode = "Smart"],
             counter |-> indexed.counter]
    IN IF st.mode = "Smart" THEN [result |-> OkUnit, state |-> st, counter |-> counter]
       ELSE Enabled(IndexWorkspace(st, files, counter, order))

\* The re-index of open_document and update_document: the path given to
\* reindex_file (history), the indexer and the id counter after it.
ReindexInSmartMode(st, files, counter, uri) ==
    LET path == uri_to_path(uri)
        Reindexed(r) ==
            [reindexed |-> path, indexer |-> Some(r.index), counter |-> r.counter]
    IN IF st.project_indexer # None /\ path # None
       THEN Reindexed(reindex_file(st.project_indexer[1], files, counter, path[1]))
       ELSE [reindexed |-> None, indexer |-> st.project_indexer, counter |-> counter]

State_open_document(st, files, counter, uri, language_id, content) ==
    LET Opened(r) ==
            [state |-> [st EXCEPT
                          !.documents = Put(@, uri, Document_new(uri, language_id, content)),
                          !.todo_index = TodoIndex_index_document(@, uri, content),
                          !.project_indexer = r.indexer],
             counter |-> r.counter, reindexed |-> r.reindexed]
    IN Opened(ReindexInSmartMode(st, files, counter, uri))

State_update_document(st, files, counter, uri, content) ==
    LET Updated(r) ==
            [state |-> [st EXCEPT
                          !.documents =
                              IF uri \in DOMAIN @
                              THEN Put(@, uri, Document_set_content(@[uri], content))
                              ELSE @,
                          !.todo_index = TodoIndex_index_document(@, uri, content),
                          !.project_indexer = r.indexer],
             counter |-> r.counter, reindexed |-> r.reindexed]
    IN Updated(ReindexInSmartMode(st, files, counter, uri))

State_close_document(st, uri) ==
    [st EXCEPT !.documents = Del(@, uri),
               !.symbol_index = SymbolIndex_remove_document(@, uri),
               !.todo_index = TodoIndex_remove_document(@, uri)]

-----------------------------------------------------------------------------
(* The daemon's request handlers *)

\* handle_set_mode: the response (success as Some, error as None), the State
\* and the id counter it leaves.
handle_set_mode(st, files, counter, order, mode) ==
    IF mode = "basic"
    THEN [result |-> Some([mode |-> "basic"]), state |-> State_enable_basic_mode(st),
          counter |-> counter]
    ELSE IF mode = "smart"
    THEN LET Response(r) ==
                 [result |-> IF r.result # None THEN Some([mode |-> "smart"]) ELSE None,
                  state |-> r.state, counter |-> r.counter]
         IN Response(State_enable_smart_mode(st, files, counter, order))
    ELSE [result |-> None, state |-> st, counter |-> counter]

\* CallHierarchyItem of a symbol
CallHierarchyItem(symbol) ==
    [name |-> symbol.name, detail |-> symbol.qualified_name, uri |-> symbol.location.uri,
     range |-> symbol.location.range, selection_range |-> symbol.location.selection_range,
     data |-> [symbolId |-> symbol.id]]

\* The item of the first symbol of a list that is in the document and whose
\* selection range spans the line.
ItemAt(symbols, uri, position) ==
    LET symbol == Find(symbols, LAMBDA s :
                      /\ s.location.uri = uri
                      /\ s.location.selection_range.start.line <= position.line
                      /\ s.location.selection_range.end.line >= position.line)
    IN IF symbol = None THEN <<>> ELSE <<CallHierarchyItem(symbol[1])>>

\* A handle_prepare that answers from the Basic index when Smart is off.
handle_prepare_with_basic_fallback(st, uri, position) ==
    IF st.project_indexer # None
    THEN ItemAt(SymbolTable_find_by_name(st.project_indexer[1].symbols, ""),
                uri, position)
    ELSE LET basic == SymbolIndex_get_document_symbols(st.symbol_index, uri)
         IN [i \in DOMAIN basic |->
                [name |-> basic[i].name, detail |-> "", uri |-> uri,
                 range |-> basic[i].range, selection_range |-> basic[i].selection_range,
                 data |-> [symbolId |-> 0]]]

\* handle_prepare: the items of the response (none for a null result)
handle_prepare(st, uri, position) ==
    IF ~State_is_smart_mode(st) THEN <<>>
    ELSE IF State_get_indexer(st) = None THEN <<>>
    ELSE ItemAt(SymbolTable_find_by_name(State_get_indexer(st)[1].symbols, ""),
                uri, position)

\* handle_incoming_calls: the calls of the response, for the symbolId of the
\* item's data (None when the item carries none)
handle_incoming_calls(st, symbol_id) ==
    IF ~State_is_smart_mode(st) THEN {}
    ELSE IF State_get_indexer(st) = None THEN {}
    ELSE IF symbol_id = None THEN {}
    ELSE LET idx == State_get_indexer(st)[1]
             callers == CallGraph_get_callers(idx.call_graph, symbol_id[1])
         IN {[from |-> CallHierarchyItem(SymbolTable_get(idx.symbols, call.caller)[1]),
              from_ranges |-> <<call.location.range>>] :
                call \in {c \in callers : SymbolTable_get(idx.symbols, c.caller) # None}}

\* handle_outgoing_calls
handle_outgoing_calls(st, symbol_id) ==
    IF ~State_is_smart_mode(st) THEN {}
    ELSE IF State_get_indexer(st) = None THEN {}
    ELSE IF symbol_id = None THEN {}
    ELSE LET idx == State_get_indexer(st)[1]
             callees == CallGraph_get_callees(idx.call_graph, symbol_id[1])
         IN {[to |-> CallHierarchyItem(SymbolTable_get(idx.symbols, call.callee)[1]),
              from_ranges |-> <<call.location.range>>] :
                call \in {c \in callees : SymbolTable_get(idx.symbols, c.callee) # None}}

\* What a document handler finds in a text: the declarations the parser sees
\* and the TODO comments.
DocTexts ==
    {[decls |-> <<Decl("A", "A", TextRange(0, 0, 2, 1), TextRange(0, 6, 0, 7), TRUE)>>,
      todos |-> <<>>],
     [decls |-> <<Decl("B", "B", TextRange(0, 0, 2, 1), TextRange(0, 6, 0, 7), TRUE)>>,
      todos |-> <<"TODO">>]}

\* The symbols a document handler gives to the Basic index.
DocumentSymbols(content) ==
    [i \in DOMAIN content.decls |->
        Symbol(content.decls[i].name, content.decls[i].range,
               content.decls[i].selection_range, <<>>)]

\* A document of the workspace and one that is no file.
DocumentUris == {"file:///ws/a.ts", "untitled:1"}

\* The workspace roots a client gives: the workspace, a directory that does not
\* exist, a file.  No root is set before the client gives one.
RootPaths == {Some("/ws"), Some("/nowhere"), Some("/ws/a.ts")}

\* The workspaces of the daemon: one source file, next to a directory that may
\* not be read or not.
DaemonWorkspaces ==
    {Put(EmptyMap, "/ws/a.ts", SrcAC),
     Put(Put(EmptyMap, "/ws/a.ts", SrcAC), "/ws/lib", LockedDir)}

InitDaemon ==
    /\ InitThreads
    /\ index = ProjectIndex_new
    /\ COUNTER = 1
    /\ disk \in DaemonWorkspaces
    /\ last = [NoCall EXCEPT !.before = State_new]
    /\ added = {}

\* A request handled by the daemon: its name, the uri or mode it was given, its
\* result and the State it started from.
DaemonCall(op, uri, result) ==
    [op |-> op, uri |-> uri, result |-> result, before |-> state, prev |-> NoCall.prev,
     arg |-> None]

\* lifecycle::initialize: the client's workspace root is kept in the State.
Initialize(root) ==
    /\ ~state.initialized
    /\ state' = [state EXCEPT !.root_path = root, !.initialized = TRUE]
    /\ last' = DaemonCall("initialize", "", None)
    /\ UNCHANGED <<index, COUNTER, disk, added, thread, observed>>

\* logos/setMode; the history names the State method the handler called.
SetMode(mode, order) ==
    /\ COUNTER <= MaxId
    /\ \E r \in {handle_set_mode(state, disk, COUNTER, order, mode)},
          op \in {IF mode = "smart" THEN "enable_smart_mode"
                  ELSE IF mode = "basic" THEN "enable_basic_mode" ELSE "setMode"} :
          /\ state' = r.state
          /\ COUNTER' = r.counter
          /\ last' = DaemonCall(op, mode, r.result)
    /\ UNCHANGED <<index, disk, added, thread, observed>>

\* textDocument/didOpen: State::open_document, and the document's symbols go
\* to the Basic index.  The history keeps the text and the path given to
\* reindex_file.
DidOpen(uri, content) ==
    /\ COUNTER <= MaxId
    /\ \E r \in {State_open_document(state, disk, COUNTER, uri, "typescript", content)} :
          /\ state' = [r.state EXCEPT !.symbol_index =
                          SymbolIndex_index_document(@, uri, DocumentSymbols(content))]
          /\ COUNTER' = r.counter
          /\ last' = [DaemonCall("open_document", uri, None)
                        EXCEPT !.arg = Some([content |-> content,
                                             reindexed |-> r.reindexed])]
    /\ UNCHANGED <<index, disk, added, thread, observed>>

\* textDocument/didChange: State::update_document, and the document's symbols go
\* to the Basic index.
DidChange(uri, content) ==
    /\ COUNTER <= MaxId
    /\ \E r \in {State_update_document(state, disk, COUNTER, uri, content)} :
          /\ state' = [r.state EXCEPT !.symbol_index =
                          SymbolIndex_index_document(@, uri, DocumentSymbols(content))]
          /\ COUNTER' = r.counter
          /\ last' = [DaemonCall("update_document", uri, None)
                        EXCEPT !.arg = Some([content |-> content,
                                             reindexed |-> r.reindexed])]
    /\ UNCHANGED <<index, disk, added, thread, observed>>

\* textDocument/didClose: State::close_document
DidClose(uri) ==
    /\ state' = State_close_document(state, uri)
    /\ last' = DaemonCall("close_document", uri, None)
    /\ UNCHANGED <<index, COUNTER, disk, added, thread, observed>>

\* textDocument/prepareCallHierarchy
PrepareCallHierarchy(uri, line) ==
    /\ last' = DaemonCall("prepareCallHierarchy", uri,
                    Some(handle_prepare(state, uri, Position(line, 0))))
    /\ UNCHANGED <<index, COUNTER, disk, added, thread, observed, state>>

\* callHierarchy/incomingCalls
IncomingCalls(symbol_id) ==
    /\ last' = DaemonCall("incomingCalls", "", Some(handle_incoming_calls(state, symbol_id)))
    /\ UNCHANGED <<index, COUNTER, disk, added, thread, observed, state>>

\* callHierarchy/outgoingCalls
OutgoingCalls(symbol_id) ==
    /\ last' = DaemonCall("outgoingCalls", "", Some(handle_outgoing_calls(state, symbol_id)))
    /\ UNCHANGED <<index, COUNTER, disk, added, thread, observed, state>>

\* The symbolId a client sends: none, or an id that was or will be issued.
SymbolIdParams == {None, Some(1), Some(3)}

NextDaemon ==
    \/ \E root \in RootPaths : Initialize(root)
    \/ \E mode \in {"basic", "smart", "turbo"}, order \in EntryOrders : SetMode(mode, order)
    \/ \E uri \in DocumentUris, content \in DocTexts : DidOpen(uri, content)
    \/ \E uri \in DocumentUris, content \in DocTexts : DidChange(uri, content)
    \/ \E uri \in DocumentUris : DidClose(uri)
    \/ \E uri \in DocumentUris, line \in {0} : PrepareCallHierarchy(uri, line)
    \/ \E symbol_id \in SymbolIdParams : IncomingCalls(symbol_id)
    \/ \E symbol_id \in SymbolIdParams : OutgoingCalls(symbol_id)

SpecDaemon == InitDaemon /\ [][NextDaemon]_vars

\* C14: the mode controller starts in Basic with no project indexer, and after
\* any requests the project indexer exists if and only if the mode is Smart.
C14_IndexerIffSmart ==
    /\ last.op = "new" => state.mode = "Basic" /\ state.project_indexer = None
    /\ state.project_indexer # None <=> state.mode = "Smart"

\* The switch back to Basic has dropped an indexer that held symbols, with a
\* document open.
C14_Witness ==
    /\ last.op = "enable_basic_mode"
    /\ last.before.mode = "Smart"
    /\ last.before.project_indexer # None
    /\ last.before.project_indexer[1].symbols.symbols # EmptyMap
    /\ state.documents # EmptyMap
    /\ state.mode = "Basic"

\* C15: enable_smart_mode ends in Smart mode with a project indexer and the
\* request succeeds, whether the root is unset, does not exist, or
\* index_directory fails.
C15_SmartModeAlwaysEnabled ==
    last.op = "enable_smart_mode" =>
        /\ state.mode = "Smart"
        /\ state.project_indexer # None
        /\ last.result = Some([mode |-> "smart"])

\* index_directory failed on a directory of the workspace that may not be read,
\* after a file was indexed, and the mode is Smart.
C15_Witness ==
    /\ last.op = "enable_smart_mode"
    /\ last.before.mode = "Basic"
    /\ last.before.root_path = Some(WorkspaceRoot)
    /\ \A order \in EntryOrders :
          index_directory(ProjectIndex_new, disk, 1, WorkspaceRoot, order).result = None
    /\ state.mode = "Smart"
    /\ state.project_indexer[1].symbols.symbols # EmptyMap

\* C16: while the mode is Basic, prepareCallHierarchy, incomingCalls and
\* outgoingCalls return no item.
C16_NoCallHierarchyInBasic ==
    last.before.mode = "Basic" =>
        /\ last.op = "prepareCallHierarchy" => last.result[1] = <<>>
        /\ last.op \in {"incomingCalls", "outgoingCalls"} => last.result[1] = {}

\* prepareCallHierarchy was asked in Basic mode, after a Smart mode that had
\* indexed the workspace, for an open document with a symbol on the line.
C16_Witness ==
    /\ last.op = "prepareCallHierarchy"
    /\ last.before.mode = "Basic"
    /\ COUNTER > 1
    /\ SymbolIndex_get_document_symbols(state.symbol_index, last.uri) # <<>>
    /\ last.result[1] = <<>>

\* C17: enable_smart_mode and enable_basic_mode leave the open documents, the
\* Basic symbol index and the TODO index as they were.
C17_ModeSwitchKeepsBasicState ==
    last.op \in {"enable_smart_mode", "enable_basic_mode"} =>
        /\ state.documents = last.before.documents
        /\ state.symbol_index = last.before.symbol_index
        /\ state.todo_index = last.before.todo_index

\* The mode went from Smart to Basic with a document open, indexed in the Basic
\* index and holding a TODO item.
C17_Witness ==
    /\ last.op = "enable_basic_mode"
    /\ last.before.mode = "Smart"
    /\ \E uri \in DOMAIN state.documents :
          /\ SymbolIndex_get_document_symbols(state.symbol_index, uri) # <<>>
          /\ uri \in DOMAIN state.todo_index
          /\ state.todo_index[uri] # <<>>

C26_PrepareFindsIndexedSymbol ==
    (last.op = "prepareCallHierarchy" /\ last.before.mode = "Smart") =>
        LET table == last.before.project_indexer[1].symbols
            covering == {id \in DOMAIN table.symbols :
                            /\ table.symbols[id].location.uri = last.uri
                            /\ table.symbols[id].location.selection_range.start.line <= 0
                            /\ table.symbols[id].location.selection_range.end.line >= 0}
        IN /\ Range(SymbolTable_find_by_name(table, ""))
                = {table.symbols[id] : id \in DOMAIN table.symbols}
           /\ covering # {} =>
                 /\ last.result[1] # <<>>
                 /\ last.result[1][1].data.symbolId \in covering

\* C19: after close_document(uri) in Smart mode the project symbol table holds
\* no symbol located in uri.
C19_CloseEvictsInSmartMode ==
    (last.op = "close_document" /\ last.before.mode = "Smart") =>
        LET table == state.project_indexer[1].symbols
        IN /\ SymbolTable_get_file_symbols(table, last.uri) = <<>>
           /\ \A id \in DOMAIN table.symbols : table.symbols[id].location.uri # last.uri

-----------------------------------------------------------------------------
(* Threads on one index.  The index is shared behind an Arc and every store is *)
(* a DashMap, so a call is a sequence of map operations, each atomic on its    *)
(* own, and the threads' operations interleave.  A step below is one map       *)
(* operation of SymbolTable::remove_file and of add_symbol; the steps on the   *)
(* other stores are the operations a call makes on that store in a row.  A     *)
(* reader's query is taken in one step.                                        *)

\* The file the threads evict and ingest.
SharedPath == "/a.ts"

SharedUri == path_to_uri(SharedPath)

\* The index holds the file's first version; its source has changed since.
FirstVersion == index_file(ProjectIndex_new, Put(EmptyMap, SharedPath, SrcAB), 1, SharedPath)

AnonymousAll(syms) == [i \in DOMAIN syms |-> Anonymous(syms[i])]

\* The queries of a reader, and what one returns on an index, up to the ids.
Queries ==
    {[fn |-> "get_file_symbols", arg |-> SharedUri]}
        \cup {[fn |-> "find_by_name", arg |-> name] : name \in AllNames}

Answer(idx, query) ==
    AnonymousAll(IF query.fn = "get_file_symbols"
                 THEN SymbolTable_get_file_symbols(idx.symbols, query.arg)
                 ELSE SymbolTable_find_by_name(idx.symbols, query.arg))

InitShared ==
    /\ index = FirstVersion.index
    /\ COUNTER = FirstVersion.counter
    /\ disk = Put(EmptyMap, SharedPath, SrcAC)
    /\ last = NoCall
    /\ added = {}
    /\ thread = [t \in Writers |-> Idle]
    /\ observed = [query |-> [fn |-> "none", arg |-> ""], result |-> <<>>]
    /\ state = State_new

At(t, pc) == thread[t].pc = pc

Goto(t, pc) == thread' = [thread EXCEPT ![t].pc = pc]

\* A thread calls index.remove_file(uri) or indexer.reindex_file(path).
Begin(t, op) ==
    /\ At(t, "idle")
    /\ thread' = [thread EXCEPT ![t].pc = "file_symbols.remove", ![t].op = op]
    /\ UNCHANGED <<index, COUNTER, disk, last, added, observed, state>>

\* SymbolTable::remove_file: self.file_symbols.remove(uri)
RemoveFileEntry(t) ==
    /\ At(t, "file_symbols.remove")
    /\ IF SharedUri \in DOMAIN index.symbols.file_symbols
       THEN /\ index' = [index EXCEPT !.symbols.file_symbols = Del(@, SharedUri)]
            /\ thread' = [thread EXCEPT ![t].pc = "symbols.remove",
                                        ![t].ids = index.symbols.file_symbols[SharedUri]]
       ELSE /\ Goto(t, "callers.retain")
            /\ UNCHANGED index
    /\ UNCHANGED <<COUNTER, disk, last, added, observed, state>>

\* for id in ids: self.symbols.remove(&id)
RemoveSymbol(t) ==
    /\ At(t, "symbols.remove")
    /\ IF thread[t].ids = <<>>
       THEN /\ Goto(t, "callers.retain")
            /\ UNCHANGED index
       ELSE LET id == Head(thread[t].ids)
            IN IF id \in DOMAIN index.symbols.symbols
               THEN /\ index' = [index EXCEPT !.symbols.symbols = Del(@, id)]
                    /\ thread' = [thread EXCEPT ![t].pc = "name_index.retain",
                                                ![t].symbol = Some(index.symbols.symbols[id])]
               ELSE /\ thread' = [thread EXCEPT ![t].ids = Tail(@)]
                    /\ UNCHANGED index
    /\ UNCHANGED <<COUNTER, disk, last, added, observed, state>>

\* self.name_index.get_mut(&symbol.name): entry.retain(|i| *i != id)
RetainNameIndex(t) ==
    /\ At(t, "name_index.retain")
    /\ LET symbol == thread[t].symbol[1]
       IN index' = [index EXCEPT !.symbols.name_index =
                       IF symbol.name \in DOMAIN @
                       THEN [@ EXCEPT ![symbol.name] = Retain(@, LAMBDA i : i # symbol.id)]
                       ELSE @]
    /\ Goto(t, "qualified_name_index.remove")
    /\ UNCHANGED <<COUNTER, disk, last, added, observed, state>>

\* self.qualified_name_index.remove(&symbol.qualified_name)
RemoveQualifiedName(t) ==
    /\ At(t, "qualified_name_index.remove")
    /\ index' = [index EXCEPT !.symbols.qualified_name_index =
                    Del(@, thread[t].symbol[1].qualified_name)]
    /\ Goto(t, "references.remove")
    /\ UNCHANGED <<COUNTER, disk, last, added, observed, state>>

\* self.references.remove(&id), the end of one turn of the loop
RemoveReferences(t) ==
    /\ At(t, "references.remove")
    /\ index' = [index EXCEPT !.symbols.references = Del(@, thread[t].symbol[1].id)]
    /\ thread' = [thread EXCEPT ![t].pc = "symbols.remove", ![t].ids = Tail(@),
                                ![t].symbol = None]
    /\ UNCHANGED <<COUNTER, disk, last, added, observed, state>>

\* CallGraph::remove_file: the loop over self.callers
RetainCallers(t) ==
    /\ At(t, "callers.retain")
    /\ index' = [index EXCEPT !.call_graph.callers =
                    [k \in DOMAIN @ |-> {call \in @[k] : call.location.uri # SharedUri}]]
    /\ Goto(t, "callees.retain")
    /\ UNCHANGED <<COUNTER, disk, last, added, observed, state>>

\* CallGraph::remove_file: the loop over self.callees
RetainCallees(t) ==
    /\ At(t, "callees.retain")
    /\ index' = [index EXCEPT !.call_graph.callees =
                    [k \in DOMAIN @ |-> {call \in @[k] : call.location.uri # SharedUri}]]
    /\ Goto(t, "dependencies.remove_file")
    /\ UNCHANGED <<COUNTER, disk, last, added, observed, state>>

\* self.dependencies.remove_file(&PathBuf::from(uri)); remove_file returns here.
RemoveDependencies(t) ==
    /\ At(t, "dependencies.remove_file")
    /\ index' = [index EXCEPT !.dependencies =
                    DependencyGraph_remove_file(@, PathBuf_from(SharedUri))]
    /\ Goto(t, IF thread[t].op = "remove_file" THEN "done" ELSE "analyze")
    /\ UNCHANGED <<COUNTER, disk, last, added, observed, state>>

\* index_file: find_adapter, read_to_string, adapter.analyze
Analyze(t) ==
    /\ At(t, "analyze")
    /\ IF find_adapter(SharedPath) = None \/ read_to_string(disk, SharedPath) = None
       THEN /\ Goto(t, "done")
            /\ UNCHANGED COUNTER
       ELSE LET a == analyze(SharedUri, disk[SharedPath], COUNTER)
            IN /\ COUNTER' = a.counter
               /\ thread' = [thread EXCEPT
                                ![t].pc = IF a.result.symbols = <<>> THEN "add_call"
                                          ELSE "symbols.insert",
                                ![t].result = Some(a.result),
                                ![t].todo = a.result.symbols]
    /\ UNCHANGED <<index, disk, last, added, observed, state>>

\* add_symbol: self.symbols.insert(id, symbol)
InsertSymbol(t) ==
    /\ At(t, "symbols.insert")
    /\ LET symbol == Head(thread[t].todo)
       IN index' = [index EXCEPT !.symbols.symbols = Put(@, symbol.id, symbol)]
    /\ Goto(t, "file_symbols.push")
    /\ UNCHANGED <<COUNTER, disk, last, added, observed, state>>

\* add_symbol: self.file_symbols.entry(uri).or_default().push(id)
PushFileSymbol(t) ==
    /\ At(t, "file_symbols.push")
    /\ LET symbol == Head(thread[t].todo)
       IN index' = [index EXCEPT !.symbols.file_symbols =
                       Put(@, symbol.location.uri,
                           Append(VecOrDefault(@, symbol.location.uri), symbol.id))]
    /\ Goto(t, "name_index.push")
    /\ UNCHANGED <<COUNTER, disk, last, added, observed, state>>

\* add_symbol: self.name_index.entry(name).or_default().push(id)
PushName(t) ==
    /\ At(t, "name_index.push")
    /\ LET symbol == Head(thread[t].todo)
       IN index' = [index EXCEPT !.symbols.name_index =
                       Put(@, symbol.name, Append(VecOrDefault(@, symbol.name), symbol.id))]
    /\ Goto(t, "qualified_name_index.insert")
    /\ UNCHANGED <<COUNTER, disk, last, added, observed, state>>

\* add_symbol: self.qualified_name_index.insert(qualified_name, id)
InsertQualifiedName(t) ==
    /\ At(t, "qualified_name_index.insert")
    /\ LET symbol == Head(thread[t].todo)
       IN index' = [index EXCEPT !.symbols.qualified_name_index =
                       Put(@, symbol.qualified_name, symbol.id)]
    /\ thread' = [thread EXCEPT
                     ![t].pc = IF Tail(thread[t].todo) = <<>> THEN "add_call"
                               ELSE "symbols.insert",
                     ![t].todo = Tail(@)]
    /\ UNCHANGED <<COUNTER, disk, last, added, observed, state>>

\* index_file: the loop over result.calls
AddCallSites(t) ==
    /\ At(t, "add_call")
    /\ LET result == thread[t].result[1]
       IN index' = [index EXCEPT !.call_graph =
                       AddCalls(@, SharedUri, result.symbols, result.calls)]
    /\ Goto(t, "add_extends")
    /\ UNCHANGED <<COUNTER, disk, last, added, observed, state>>

\* index_file: the loop over result.type_relations
AddTypeEdges(t) ==
    /\ At(t, "add_extends")
    /\ LET result == thread[t].result[1]
       IN index' = [index EXCEPT !.type_hierarchy =
                       AddTypeRelations(@, result.symbols, result.type_relations)]
    /\ Goto(t, "add_import")
    /\ UNCHANGED <<COUNTER, disk, last, added, observed, state>>

\* index_file: the loop over result.imports, set_exports, and the return
AddDependencies(t) ==
    /\ At(t, "add_import")
    /\ LET result == thread[t].result[1]
           exported == SelectSeq(result.symbols, LAMBDA s : s.exported)
       IN index' = [index EXCEPT !.dependencies =
                       DependencyGraph_set_exports(
                           AddImports(@, disk, SharedPath, result.imports), SharedPath,
                           [i \in DOMAIN exported |-> exported[i].id])]
    /\ Goto(t, "done")
    /\ UNCHANGED <<COUNTER, disk, last, added, observed, state>>

WriterStep(t) ==
    \/ \E op \in {"remove_file", "reindex_file"} : Begin(t, op)
    \/ RemoveFileEntry(t)
    \/ RemoveSymbol(t)
    \/ RetainNameIndex(t)
    \/ RemoveQualifiedName(t)
    \/ RemoveReferences(t)
    \/ RetainCallers(t)
    \/ RetainCallees(t)
    \/ RemoveDependencies(t)
    \/ Analyze(t)
    \/ InsertSymbol(t)
    \/ PushFileSymbol(t)
    \/ PushName(t)
    \/ InsertQualifiedName(t)
    \/ AddCallSites(t)
    \/ AddTypeEdges(t)
    \/ AddDependencies(t)

\* A reader thread calls get_file_symbols(uri) or find_by_name(name).
Read(query) ==
    /\ observed' = [query |-> query, result |-> Answer(index, query)]
    /\ UNCHANGED <<index, COUNTER, disk, last, added, thread, state>>

\* One writer and one reader.
NextReader == WriterStep("w1") \/ \E query \in Queries : Read(query)

SpecReader == InitShared /\ [][NextReader]_vars

\* Two writers.
NextWriters == \E t \in Writers : WriterStep(t)

SpecWriters == InitShared /\ [][NextWriters]_vars

\* The index a call leaves when it runs alone on the first version.
AloneAfter(op) ==
    IF op = "remove_file" THEN ProjectIndex_remove_file(FirstVersion.index, SharedUri)
    ELSE reindex_file(FirstVersion.index, disk, FirstVersion.counter, SharedPath).index

\* C6: a reader that queries the index while a thread is in remove_file or
\* reindex_file of a file gets either the complete previous state of the file or
\* its complete new state: a query returns what it returns before the call or
\* what it returns after it.
C6_ReaderSeesOldOrNewFile ==
    observed.query.fn # "none" =>
        \/ observed.result = Answer(FirstVersion.index, observed.query)
        \/ /\ thread["w1"].op # "none"
           /\ observed.result = Answer(AloneAfter(thread["w1"].op), observed.query)

\* C7: two reindex_file calls for one path are serialized: when both have
\* returned, the index holds one copy of the file's symbols.
C7_OneCopyAfterTwoReindex ==
    (\A t \in Writers : At(t, "done") /\ thread[t].op = "reindex_file") =>
        AnonymousAll(SymbolTable_get_file_symbols(index.symbols, SharedUri))
          = AnonymousAll(SymbolTable_get_file_symbols(AloneAfter("reindex_file").symbols,
                                                      SharedUri))

====
